---- MODULE Spec2Model ----
(***************************************************************************)
(* A model of the credit-document validator: the per-document rule engine  *)
(* (agents/validation.py), the preprocessing, classification and           *)
(* extraction chains, and the orchestrator with its aggregation policy     *)
(* (langchain_orchestrator.py).                                            *)
(*                                                                         *)
(* Python strings are sequences of one-character strings, so that strip,   *)
(* lower, replace, the regular expressions and the date parsers are        *)
(* computed character by character as the library computes them.  JSON     *)
(* values are tagged records (None, str, int, list, dict).                 *)
(***************************************************************************)
EXTENDS Integers, Sequences, FiniteSets, TLC

VARIABLES
    \* --- one run of main_validation_chain_processor ---
    payload,                 \* documents_base64_payload
    client_data,             \* client_data (also the validator's)
    today,                   \* datetime.now().date()
    pc,                      \* position of the orchestrator
    pre_i,                   \* index of preprocess_documents_chain's loop
    processed_results,       \* preprocess_documents_chain's processed_results
    loop_i,                  \* index of the orchestrator's loop over documents
    cur,                     \* doc_info of the document being processed
    final_document_results,  \* final_document_results
    exception,               \* the exception on its way to line 215
    response,                \* what the orchestrator returned
    calls,                   \* the collaborator calls made, in order
    \* --- one run of validate_document_data_chain ---
    v_doc_type, v_extracted, v_todo, v_raises,
    validation_status, validation_errors, v_pc,
    \* --- one call of determine_global_status / generate_global_summary ---
    agg_docs, agg_status, agg_summary, agg_pc,
    \* --- one call of extract_credit_data_chain ---
    ext_args, ext_result

pipeVars == <<payload, pc, pre_i, processed_results, loop_i, cur,
              final_document_results, exception, response, calls>>
valVars  == <<v_doc_type, v_extracted, v_todo, v_raises,
              validation_status, validation_errors, v_pc>>
aggVars  == <<agg_docs, agg_status, agg_summary, agg_pc>>
extVars  == <<ext_args, ext_result>>
vars     == <<client_data, today, pipeVars, valVars, aggVars, extVars>>

(***************************************************************************)
(* Bounds of the model.                                                    *)
(***************************************************************************)
MaxDocs == 2      \* documents in one request
MaxAggDocs == 3   \* entries of a result map handed to the aggregator alone

(***************************************************************************)
(* Python values.                                                          *)
(***************************************************************************)
None    == [tag |-> "none"]
Str(s)  == [tag |-> "str", v |-> s]
Num(n)  == [tag |-> "int", v |-> n]
List(l) == [tag |-> "list", v |-> l]
Dict(d) == [tag |-> "dict", v |-> d]

IsStr(x)  == x.tag = "str"
IsNone(x) == x.tag = "none"

\* bool(x): None, "", 0, [] and {} are falsy
Truthy(x) ==
    CASE x.tag = "none" -> FALSE
      [] x.tag = "str"  -> Len(x.v) > 0
      [] x.tag = "int"  -> x.v # 0
      [] x.tag = "bool" -> x.v
      [] x.tag = "list" -> Len(x.v) > 0
      [] x.tag = "dict" -> DOMAIN x.v # {}

\* d.get(k) and d.get(k, default) of a Python dict held as a function
Get(d, k) == IF k \in DOMAIN d THEN d[k] ELSE None
GetOr(d, k, default) == IF k \in DOMAIN d THEN d[k] ELSE default

(***************************************************************************)
(* str methods.                                                            *)
(***************************************************************************)
Digits == {"0", "1", "2", "3", "4", "5", "6", "7", "8", "9"}
Whitespace == {" ", "\t", "\n", "\r"}
UpperChars == <<"A","B","C","D","E","F","G","H","I","J","K","L","M",
                "N","O","P","Q","R","S","T","U","V","W","X","Y","Z">>
LowerChars == <<"a","b","c","d","e","f","g","h","i","j","k","l","m",
                "n","o","p","q","r","s","t","u","v","w","x","y","z">>

LowerChar(c) ==
    IF \E i \in 1..26 : UpperChars[i] = c
    THEN LowerChars[CHOOSE i \in 1..26 : UpperChars[i] = c] ELSE c
UpperChar(c) ==
    IF \E i \in 1..26 : LowerChars[i] = c
    THEN UpperChars[CHOOSE i \in 1..26 : LowerChars[i] = c] ELSE c

lower(s) == [i \in 1..Len(s) |-> LowerChar(s[i])]
upper(s) == [i \in 1..Len(s) |-> UpperChar(s[i])]

\* s.strip()
strip(s) ==
    LET keep == {i \in 1..Len(s) : s[i] \notin Whitespace}
    IN  IF keep = {} THEN <<>>
        ELSE LET lo == CHOOSE i \in keep : \A j \in keep : i <= j
                 hi == CHOOSE i \in keep : \A j \in keep : j <= i
             IN  SubSeq(s, lo, hi)

\* s.replace(c, "") for a one-character c
RemoveChar(s, c) == SelectSeq(s, LAMBDA x : x # c)
\* s.replace(c, d) for one-character c and d
ReplaceChar(s, c, d) == [i \in 1..Len(s) |-> IF s[i] = c THEN d ELSE s[i]]

startswith(s, p) == Len(p) <= Len(s) /\ SubSeq(s, 1, Len(p)) = p
endswith(s, p) == Len(p) <= Len(s) /\ SubSeq(s, Len(s) - Len(p) + 1, Len(s)) = p
\* p in s
Contains(s, p) ==
    \E i \in 1..(Len(s) - Len(p) + 1) : SubSeq(s, i, i + Len(p) - 1) = p

AllDigits(s) == \A i \in 1..Len(s) : s[i] \in Digits

\* the class \d of a str pattern: every Unicode decimal digit.  One character
\* outside ASCII that a TLA+ string cannot hold (U+0663, ARABIC-INDIC DIGIT
\* THREE) stands for the rest of the class.
ArabicIndicThree == "ARABIC_INDIC_DIGIT_THREE"
DecimalDigits == Digits \cup {ArabicIndicThree}
AllDecimal(s) == \A i \in 1..Len(s) : s[i] \in DecimalDigits

DigitVal(c) ==
    CASE c = "0" -> 0 [] c = "1" -> 1 [] c = "2" -> 2 [] c = "3" -> 3
      [] c = "4" -> 4 [] c = "5" -> 5 [] c = "6" -> 6 [] c = "7" -> 7
      [] c = "8" -> 8 [] c = "9" -> 9 [] c = ArabicIndicThree -> 3

RECURSIVE ToNat(_)
ToNat(s) == IF s = <<>> THEN 0
            ELSE 10 * ToNat(SubSeq(s, 1, Len(s) - 1)) + DigitVal(s[Len(s)])

\* s.split(): the maximal runs of non-whitespace characters
RECURSIVE split(_)
split(s) ==
    LET keep == {i \in 1..Len(s) : s[i] \notin Whitespace}
    IN  IF keep = {} THEN <<>>
        ELSE LET lo == CHOOSE i \in keep : \A j \in keep : i <= j
                 ends == {i \in lo..Len(s) : s[i] \in Whitespace}
                 hi == IF ends = {} THEN Len(s)
                       ELSE (CHOOSE i \in ends : \A j \in ends : i <= j) - 1
             IN  <<SubSeq(s, lo, hi)>> \o split(SubSeq(s, hi + 1, Len(s)))

\* ' '.join(words)
RECURSIVE join(_)
join(words) ==
    IF words = <<>> THEN <<>>
    ELSE IF Len(words) = 1 THEN words[1]
    ELSE words[1] \o <<" ">> \o join(Tail(words))

(***************************************************************************)
(* datetime.date: parsing and arithmetic.                                  *)
(***************************************************************************)
IsLeap(y) == y % 4 = 0 /\ (y % 100 # 0 \/ y % 400 = 0)

DaysInMonth(y, m) ==
    CASE m \in {1, 3, 5, 7, 8, 10, 12} -> 31
      [] m \in {4, 6, 9, 11} -> 30
      [] OTHER -> IF IsLeap(y) THEN 29 ELSE 28

RECURSIVE DaysBeforeMonth(_, _)
DaysBeforeMonth(y, m) ==
    IF m = 1 THEN 0 ELSE DaysBeforeMonth(y, m - 1) + DaysInMonth(y, m - 1)

\* date(y, m, d) raises ValueError outside these ranges
ValidDate(y, m, d) ==
    /\ y >= 1 /\ y <= 9999
    /\ m >= 1 /\ m <= 12
    /\ d >= 1 /\ d <= DaysInMonth(y, m)

\* date.toordinal(): the difference of two dates in days is the difference
\* of their ordinals
Ordinal(dt) ==
    LET y1 == dt.y - 1
    IN  y1 * 365 + (y1 \div 4) - (y1 \div 100) + (y1 \div 400)
        + DaysBeforeMonth(dt.y, dt.m) + dt.d

NoDate == [ok |-> FALSE]
Date(y, m, d) == [ok |-> TRUE, y |-> y, m |-> m, d |-> d]

\* _strptime's regular expressions for %m and %d
MonthToken(t) ==
    \/ Len(t) = 2 /\ t[1] = "1" /\ t[2] \in {"0", "1", "2"}
    \/ Len(t) = 2 /\ t[1] = "0" /\ t[2] \in Digits \ {"0"}
    \/ Len(t) = 1 /\ t[1] \in Digits \ {"0"}
DayToken(t) ==
    \/ Len(t) = 2 /\ t[1] = "3" /\ t[2] \in {"0", "1"}
    \/ Len(t) = 2 /\ t[1] \in {"1", "2"} /\ t[2] \in DecimalDigits
    \/ Len(t) = 2 /\ t[1] = "0" /\ t[2] \in Digits \ {"0"}
    \/ Len(t) = 1 /\ t[1] \in Digits \ {"0"}
    \/ Len(t) = 2 /\ t[1] = " " /\ t[2] \in Digits \ {"0"}

\* datetime.strptime(s, "%Y-%m-%d").date(); NoDate stands for ValueError
strptime_ymd(s) ==
    LET dashes == {i \in 1..Len(s) : s[i] = "-"}
    IN  IF /\ Len(s) >= 8
           /\ Cardinality(dashes) = 2
           /\ 5 \in dashes
           /\ AllDecimal(SubSeq(s, 1, 4))
        THEN LET p == CHOOSE i \in dashes : i # 5
                 mt == SubSeq(s, 6, p - 1)
                 dt == SubSeq(s, p + 1, Len(s))
             IN  IF MonthToken(mt) /\ DayToken(dt)
                 THEN LET y == ToNat(SubSeq(s, 1, 4))
                          m == ToNat(mt)
                          d == ToNat(RemoveChar(dt, " "))
                      IN  IF ValidDate(y, m, d) THEN Date(y, m, d) ELSE NoDate
                 ELSE NoDate
        ELSE NoDate

TwoDigits(t) == Len(t) = 2 /\ AllDigits(t)

\* the UTC offset +HH:MM or -HH:MM that may end an ISO time
IsoOffset(t) ==
    /\ Len(t) = 6 /\ t[1] \in {"+", "-"} /\ t[4] = ":"
    /\ TwoDigits(SubSeq(t, 2, 3)) /\ TwoDigits(SubSeq(t, 5, 6))
    /\ ToNat(SubSeq(t, 2, 3)) < 24 /\ ToNat(SubSeq(t, 5, 6)) < 60

\* HH[:MM[:SS[.fff[fff]]]] with the fields in range
IsoClock(t) ==
    /\ Len(t) \in {2, 5, 8, 12, 15}
    /\ TwoDigits(SubSeq(t, 1, 2)) /\ ToNat(SubSeq(t, 1, 2)) < 24
    /\ Len(t) >= 5 => /\ t[3] = ":" /\ TwoDigits(SubSeq(t, 4, 5))
                      /\ ToNat(SubSeq(t, 4, 5)) < 60
    /\ Len(t) >= 8 => /\ t[6] = ":" /\ TwoDigits(SubSeq(t, 7, 8))
                      /\ ToNat(SubSeq(t, 7, 8)) < 60
    /\ Len(t) >= 12 => t[9] = "." /\ AllDigits(SubSeq(t, 10, Len(t)))

IsoTime(t) ==
    \/ IsoClock(t)
    \/ Len(t) > 6 /\ IsoClock(SubSeq(t, 1, Len(t) - 6))
                  /\ IsoOffset(SubSeq(t, Len(t) - 5, Len(t)))

\* datetime.fromisoformat(s).date() on the strings every supported Python
\* release reads alike: YYYY-MM-DD, or YYYY-MM-DD, one separator character
\* and a time.  NoDate stands for ValueError.
fromisoformat(s) ==
    IF /\ Len(s) >= 10
       /\ AllDigits(SubSeq(s, 1, 4)) /\ s[5] = "-"
       /\ AllDigits(SubSeq(s, 6, 7)) /\ s[8] = "-"
       /\ AllDigits(SubSeq(s, 9, 10))
       /\ (Len(s) = 10 \/ (Len(s) >= 12 /\ IsoTime(SubSeq(s, 12, Len(s)))))
    THEN LET y == ToNat(SubSeq(s, 1, 4))
             m == ToNat(SubSeq(s, 6, 7))
             d == ToNat(SubSeq(s, 9, 10))
         IN  IF ValidDate(y, m, d) THEN Date(y, m, d) ELSE NoDate
    ELSE NoDate

(***************************************************************************)
(* String literals of the code.                                            *)
(***************************************************************************)
CEDULA_IDENTIDAD == <<"C","E","D","U","L","A","_","I","D","E","N","T","I",
    "D","A","D">>
LIQUIDACION_SUELDO == <<"L","I","Q","U","I","D","A","C","I","O","N","_","S",
    "U","E","L","D","O">>
COMPROBANTE_DOMICILIO == <<"C","O","M","P","R","O","B","A","N","T","E","_",
    "D","O","M","I","C","I","L","I","O">>
CERTIFICADO_DEUDA == <<"C","E","R","T","I","F","I","C","A","D","O","_","D",
    "E","U","D","A">>
REFERENCIAS_PERSONALES == <<"R","E","F","E","R","E","N","C","I","A","S","_",
    "P","E","R","S","O","N","A","L","E","S">>
OTRO == <<"O","T","R","O">>
UNKNOWN_LOWER == <<"u","n","k","n","o","w","n">>
SIN_ANOTACIONES == <<"s","i","n"," ","a","n","o","t","a","c","i","o","n",
    "e","s">>
CON_ANOTACIONES == <<"c","o","n"," ","a","n","o","t","a","c","i","o","n",
    "e","s">>

(***************************************************************************)
(* validate_document_data_chain: the findings and the status.              *)
(*                                                                         *)
(* A finding is the dict a helper closure appends; `message` stands for the *)
(* formatted text and names the rule that produced it.  The state of one   *)
(* run is the pair (validation_status, validation_errors) the two helper   *)
(* closures update.                                                        *)
(***************************************************************************)
\* validation_status = "OK"; validation_errors = []
ValStart == [validation_status |-> "OK", validation_errors |-> <<>>]

\* add_critical_error keeping only the finding it adds
add_critical_error_keeping_last(st, field, message) ==
    [validation_status |-> "ERROR",
     validation_errors |->
         <<[field |-> field, message |-> message, severity |-> "CRITICAL"]>>]

add_critical_error(st, field, message) ==
    [validation_status |-> "ERROR",
     validation_errors |->
         Append(st.validation_errors,
                [field |-> field, message |-> message, severity |-> "CRITICAL"])]

\* add_manual_review_error without the test of the current status
add_manual_review_error_unconditional(st, field, message) ==
    [validation_status |-> "PENDIENTE_MANUAL",
     validation_errors |->
         Append(st.validation_errors,
                [field |-> field, message |-> message,
                 severity |-> "MANUAL_REVIEW"])]

add_manual_review_error(st, field, message) ==
    [validation_status |-> IF st.validation_status = "OK"
                           THEN "PENDIENTE_MANUAL" ELSE st.validation_status,
     validation_errors |->
         Append(st.validation_errors,
                [field |-> field, message |-> message,
                 severity |-> "MANUAL_REVIEW"])]

\* a rule's call of one of the two helpers
Crit(field, message) ==
    [helper |-> "add_critical_error", field |-> field, message |-> message]
Man(field, message) ==
    [helper |-> "add_manual_review_error", field |-> field, message |-> message]

CallHelper(st, c) ==
    IF c.helper = "add_critical_error"
    THEN add_critical_error(st, c.field, c.message)
    ELSE add_manual_review_error(st, c.field, c.message)

(***************************************************************************)
(* The rules.  A block of statements yields the helper calls it makes, in  *)
(* order, and whether it ends in an exception the function does not catch  *)
(* (AttributeError or TypeError on a value that is not a str or a dict).   *)
(***************************************************************************)
Ok(errs) == [errs |-> errs, raised |-> FALSE]
Raise(errs) == [errs |-> errs, raised |-> TRUE]
If(cond, f) == IF cond THEN <<f>> ELSE <<>>

\* statements in sequence: the first exception ends the run
RECURSIVE Blocks(_)
Blocks(bs) ==
    IF bs = <<>> THEN Ok(<<>>)
    ELSE IF bs[1].raised THEN bs[1]
    ELSE LET rest == Blocks(Tail(bs))
         IN  [errs |-> bs[1].errs \o rest.errs, raised |-> rest.raised]

StrOf(x) == IF IsStr(x) THEN x.v ELSE <<>>
EmptyDict == [k \in {} |-> None]
DictOf(x) == IF x.tag = "dict" THEN x.v ELSE EmptyDict

\* lines 35-54: the curse date, and the finding when it does not parse
CurseDate(client) ==
    LET raw == Get(client, "solicitud_fecha_curse")
    IN  IF ~Truthy(raw) THEN [date |-> NoDate, res |-> Ok(<<>>)]
        ELSE IF ~IsStr(raw) THEN [date |-> NoDate, res |-> Raise(<<>>)]
        ELSE LET iso == IF endswith(raw.v, <<"Z">>)
                        THEN fromisoformat(RemoveChar(raw.v, "Z"))
                        ELSE fromisoformat(raw.v)
                 ymd == strptime_ymd(raw.v)
             IN  IF iso.ok THEN [date |-> iso, res |-> Ok(<<>>)]
                 ELSE IF ymd.ok THEN [date |-> ymd, res |-> Ok(<<>>)]
                 ELSE [date |-> NoDate,
                       res |-> Ok(<<Crit("solicitud_fecha_curse", "format")>>)]

\* for field in critical_fields: if not extracted_data.get(field): ...
RECURSIVE RequiredFields(_, _)
RequiredFields(d, fields) ==
    IF fields = <<>> THEN <<>>
    ELSE If(~Truthy(Get(d, fields[1])), Crit(fields[1], "missing"))
         \o RequiredFields(d, Tail(fields))

\* x.get(k, "").strip(): AttributeError unless the value is a str
Strippable(d, k) == IsStr(GetOr(d, k, Str(<<>>)))
Stripped(d, k) == strip(StrOf(GetOr(d, k, Str(<<>>))))
\* CleanRut that leaves the dots in
CleanRut_keeping_dots(d, k) == lower(RemoveChar(Stripped(d, k), "-"))
\* .strip().replace(".", "").replace("-", "").lower()
CleanRut(d, k) == lower(RemoveChar(RemoveChar(Stripped(d, k), "."), "-"))

\* re.fullmatch(r"^\d{1,2}\.\d{3}\.\d{3}[-][0-9Kk]$|^\d{7,8}[-][0-9Kk]$", s)
RutFormat(s) ==
    LET n == Len(s)
        check(c) == c \in Digits \cup {"K", "k"}
    IN  \/ /\ n \in {11, 12}
           /\ AllDecimal(SubSeq(s, 1, n - 10))
           /\ s[n - 9] = "." /\ AllDecimal(SubSeq(s, n - 8, n - 6))
           /\ s[n - 5] = "." /\ AllDecimal(SubSeq(s, n - 4, n - 2))
           /\ s[n - 1] = "-" /\ check(s[n])
        \/ /\ n \in {9, 10}
           /\ AllDecimal(SubSeq(s, 1, n - 2))
           /\ s[n - 1] = "-" /\ check(s[n])

\* a date field read with datetime.strptime(extracted_data[k], "%Y-%m-%d"):
\* absent (falsy), TypeError (truthy, not a str), ValueError, or a date
FieldDate(d, k) ==
    LET x == Get(d, k)
    IN  IF ~Truthy(x) THEN [kind |-> "absent"]
        ELSE IF ~IsStr(x) THEN [kind |-> "typeerror"]
        ELSE LET p == strptime_ymd(x.v)
             IN  IF p.ok THEN [kind |-> "date", date |-> p]
                 ELSE [kind |-> "valueerror"]

\* lines 71-93 and 180-198: the identity cross-check against client_data
NameFields == <<"nombres", "apellido_paterno", "apellido_materno">>
ClientNameFields ==
    <<"cliente_nombres", "cliente_apellido_paterno", "cliente_apellido_materno">>

NameMismatch(d, client, i) ==
    LET e == lower(Stripped(d, NameFields[i]))
        c == lower(Stripped(client, ClientNameFields[i]))
    IN  e # <<>> /\ c # <<>> /\ e # c

IdentityCheck(d, client, withRun) ==
    IF \/ \E i \in 1..3 : ~Strippable(client, ClientNameFields[i])
       \/ ~Strippable(client, "cliente_rut")
       \/ \E i \in 1..3 : ~Strippable(d, NameFields[i])
       \/ ~Strippable(d, "run")
    THEN Raise(<<>>)
    ELSE Ok(If(NameMismatch(d, client, 1), Crit("nombres", "mismatch"))
            \o If(NameMismatch(d, client, 2), Crit("apellido_paterno", "mismatch"))
            \o If(NameMismatch(d, client, 3), Crit("apellido_materno", "mismatch"))
            \o If(/\ withRun
                  /\ CleanRut(d, "run") # <<>>
                  /\ CleanRut(client, "cliente_rut") # <<>>
                  /\ CleanRut(d, "run") # CleanRut(client, "cliente_rut"),
                  Crit("run", "mismatch")))

\* lines 62-130
RulesCedula(x, client, curse, now) ==
    LET d == DictOf(x)
        run == Get(d, "run")
        venc == FieldDate(d, "fecha_vencimiento")
        sexo == Get(d, "sexo")
        otherDate(k) ==
            LET f == FieldDate(d, k)
            IN  IF f.kind = "typeerror" THEN Raise(<<>>)
                ELSE Ok(If(f.kind = "valueerror", Crit(k, "format")))
    IN  IF x.tag # "dict" THEN Raise(<<>>)
        ELSE Blocks(<<
          Ok(RequiredFields(d, <<"nombre_completo", "run", "fecha_nacimiento",
                                 "fecha_vencimiento">>)),
          IdentityCheck(d, client, TRUE),
          Ok(If(Truthy(run) /\ ~RutFormat(StrOf(run)), Crit("run_format", "format"))),
          CASE venc.kind = "absent" ->
                 Ok(<<Crit("fecha_vencimiento", "not_found")>>)
            [] venc.kind = "typeerror" -> Raise(<<>>)
            [] venc.kind = "valueerror" ->
                 Ok(<<Crit("fecha_vencimiento", "format")>>)
            [] venc.kind = "date" ->
                 IF curse.ok
                 THEN Ok(If(Ordinal(venc.date) < Ordinal(curse),
                            Crit("fecha_vencimiento", "expired_at_curse")))
                 ELSE Ok(If(Ordinal(venc.date) < Ordinal(now),
                            Crit("fecha_vencimiento", "expired_today"))),
          otherDate("fecha_nacimiento"),
          otherDate("fecha_emision"),
          IF Truthy(sexo) /\ ~IsStr(sexo) THEN Raise(<<>>)
          ELSE Ok(If(Truthy(sexo) /\ upper(StrOf(sexo)) \notin {<<"M">>, <<"F">>},
                     Man("sexo", "not_m_or_f")))
        >>)

\* lines 133-198
RulesComprobante(x, client, curse, now) ==
    LET d == DictOf(x)
        emi == FieldDate(d, "fecha_emision")
        venc == FieldDate(d, "fecha_vencimiento")
    IN  IF x.tag # "dict" THEN Raise(<<>>)
        ELSE Blocks(<<
          Ok(RequiredFields(d, <<"nombre_titular", "direccion_completa",
                                 "empresa_emisora", "fecha_emision">>)),
          CASE emi.kind = "absent" -> Ok(<<Crit("fecha_emision", "not_found")>>)
            [] emi.kind = "typeerror" -> Raise(<<>>)
            [] emi.kind = "valueerror" -> Ok(<<Crit("fecha_emision", "format")>>)
            [] emi.kind = "date" ->
                 IF curse.ok
                 THEN LET days_diff_emission == Ordinal(curse) - Ordinal(emi.date)
                      IN  IF days_diff_emission < 0
                          THEN Ok(<<Crit("fecha_emision", "future")>>)
                          ELSE Ok(If(days_diff_emission > 60,
                                     Crit("fecha_emision", "too_old")))
                 ELSE Ok(<<Man("fecha_emision", "no_curse_date")>>),
          CASE venc.kind = "absent" -> Ok(<<>>)
            [] venc.kind = "typeerror" -> Raise(<<>>)
            [] venc.kind = "valueerror" ->
                 Ok(<<Crit("fecha_vencimiento", "format")>>)
            [] venc.kind = "date" ->
                 IF curse.ok
                 THEN Ok(If(Ordinal(curse) - Ordinal(venc.date) > 10,
                            Crit("fecha_vencimiento", "expired")))
                 ELSE Ok(<<Man("fecha_vencimiento", "no_curse_date")>>),
          IdentityCheck(d, client, FALSE)
        >>)

\* lines 201-257
RulesCertificado(x, client, curse, now) ==
    LET d == DictOf(x)
        e == CleanRut(d, "run_titular")
        c == CleanRut(client, "cliente_rut")
        emi == FieldDate(d, "fecha_emision")
        estado == Get(d, "estado_deuda")
        estado_lower == lower(StrOf(estado))
    IN  IF x.tag # "dict" THEN Raise(<<>>)
        ELSE Blocks(<<
          Ok(RequiredFields(d, <<"nombre_titular", "run_titular", "estado_deuda",
                                 "fecha_emision">>)),
          IF ~Strippable(d, "run_titular") \/ ~Strippable(client, "cliente_rut")
          THEN Raise(<<>>)
          ELSE IF e # <<>> /\ c # <<>> /\ e # c
          THEN Ok(<<Crit("run_titular", "mismatch")>>)
          ELSE Ok(If(e = <<>>, Crit("run_titular", "not_found"))),
          CASE emi.kind = "absent" -> Ok(<<Crit("fecha_emision", "not_found")>>)
            [] emi.kind = "typeerror" -> Raise(<<>>)
            [] emi.kind = "valueerror" -> Ok(<<Crit("fecha_emision", "format")>>)
            [] emi.kind = "date" ->
                 IF curse.ok
                 THEN Ok(If(Ordinal(emi.date) # Ordinal(curse),
                            Crit("fecha_emision", "not_curse_date")))
                 ELSE Ok(<<Man("fecha_emision", "no_curse_date")>>),
          IF ~Truthy(estado) THEN Ok(<<Crit("estado_deuda", "not_found")>>)
          ELSE IF ~IsStr(estado) THEN Raise(<<>>)
          ELSE IF Contains(estado_lower, SIN_ANOTACIONES) THEN Ok(<<>>)
          ELSE IF Contains(estado_lower, CON_ANOTACIONES)
          THEN Ok(<<Crit("estado_deuda", "con_anotaciones")>>)
          ELSE Ok(<<Man("estado_deuda", "ambiguous")>>)
        >>)

\* telefono.replace(" ", "").replace("-", "").replace("(", "")
\*         .replace(")", "").replace("+", "")
CleanPhone(s) == SelectSeq(s, LAMBDA ch : ch \notin {" ", "-", "(", ")", "+"})

\* re.fullmatch(r"^(?:56)?(?:9\d{8}|[2-8]\d{7})$", s)
PhoneFormat(s) ==
    LET local(t) ==
            \/ Len(t) = 9 /\ t[1] = "9" /\ AllDecimal(t)
            \/ Len(t) = 8 /\ t[1] \in {"2", "3", "4", "5", "6", "7", "8"}
                          /\ AllDecimal(t)
    IN  \/ local(s)
        \/ startswith(s, <<"5", "6">>) /\ local(SubSeq(s, 3, Len(s)))

\* lines 270-292, one reference
RulesReference(ref, i) ==
    LET r == DictOf(ref)
        pre == "reference_" \o ToString(i) \o "."
        telefono == GetOr(r, "numero_telefono", Str(<<>>))
    IN  IF ref.tag # "dict" THEN Raise(<<>>)
        ELSE Blocks(<<
          Ok(If(~Truthy(Get(r, "nombre_referencia")),
                Crit(pre \o "nombre_referencia", "not_found"))),
          IF ~Truthy(telefono)
          THEN Ok(<<Crit(pre \o "numero_telefono", "not_found")>>)
          ELSE IF ~IsStr(telefono) THEN Raise(<<>>)
          ELSE Ok(If(~PhoneFormat(CleanPhone(telefono.v)),
                     Crit(pre \o "numero_telefono", "format")))
        >>)

\* lines 261-292
RulesReferencias(x) ==
    IF x.tag # "list" THEN Ok(<<Crit("extracted_data", "not_a_list")>>)
    ELSE Blocks(<<Ok(If(Len(x.v) < 2, Crit("count", "fewer_than_2")))>>
                \o [i \in 1..Len(x.v) |-> RulesReference(x.v[i], i)])

\* float(s): optional sign, then inf, infinity, nan, or a decimal number
\* with an optional exponent; single underscores may separate digits
DigitPart(p) ==
    /\ p # <<>>
    /\ p[1] \in DecimalDigits /\ p[Len(p)] \in DecimalDigits
    /\ \A i \in 1..Len(p) : p[i] \in DecimalDigits \cup {"_"}
    /\ \A i \in 1..(Len(p) - 1) : ~(p[i] = "_" /\ p[i + 1] = "_")
Unsigned(s) == IF s # <<>> /\ s[1] \in {"+", "-"} THEN Tail(s) ELSE s
Mantissa(m) ==
    LET dots == {i \in 1..Len(m) : m[i] = "."}
    IN  IF dots = {} THEN DigitPart(m)
        ELSE /\ Cardinality(dots) = 1
             /\ LET k == CHOOSE i \in dots : TRUE
                    left == SubSeq(m, 1, k - 1)
                    right == SubSeq(m, k + 1, Len(m))
                IN  /\ left = <<>> \/ DigitPart(left)
                    /\ right = <<>> \/ DigitPart(right)
                    /\ left # <<>> \/ right # <<>>
FloatParses(s) ==
    LET u == Unsigned(strip(s))
        exps == {i \in 1..Len(u) : u[i] \in {"e", "E"}}
    IN  \/ lower(u) \in {<<"i","n","f">>, <<"n","a","n">>,
                         <<"i","n","f","i","n","i","t","y">>}
        \/ exps = {} /\ Mantissa(u)
        \/ /\ Cardinality(exps) = 1
           /\ LET k == CHOOSE i \in exps : TRUE
              IN  /\ Mantissa(SubSeq(u, 1, k - 1))
                  /\ DigitPart(Unsigned(SubSeq(u, k + 1, Len(u))))

\* lines 331-339, one monetary field: str(value) is numeric for an int and
\* never for a list or a dict
RulesMonto(d, k) ==
    LET x == Get(d, k)
    IN  IF IsNone(x) THEN <<Crit(k, "missing")>>
        ELSE If(CASE x.tag = "int" -> FALSE
                  [] x.tag = "str" ->
                       ~FloatParses(ReplaceChar(RemoveChar(x.v, "."), ",", "."))
                  [] OTHER -> TRUE,
                Man(k, "not_a_number"))

\* lines 296-339
RulesLiquidacion(x, client, curse, now) ==
    LET d == DictOf(x)
        emi == FieldDate(d, "fecha_emision")
        rutRule(k) ==
            LET v == Get(d, k)
            IN  IF Truthy(v) /\ ~IsStr(v) THEN Raise(<<>>)
                ELSE Ok(If(Truthy(v) /\ ~RutFormat(StrOf(v)), Crit(k, "format")))
    IN  IF x.tag # "dict" THEN Raise(<<>>)
        ELSE Blocks(<<
          Ok(RequiredFields(d, <<"nombre_empleado", "run_empleado", "rut_empresa",
                                 "nombre_empresa", "cargo", "periodo",
                                 "fecha_emision", "sueldo_bruto",
                                 "sueldo_liquido">>)),
          rutRule("run_empleado"),
          rutRule("rut_empresa"),
          CASE emi.kind = "absent" -> Ok(<<>>)
            [] emi.kind = "typeerror" -> Raise(<<>>)
            [] emi.kind = "valueerror" -> Ok(<<Crit("fecha_emision", "format")>>)
            [] emi.kind = "date" ->
                 IF curse.ok
                 THEN LET months_diff == (curse.y - emi.date.y) * 12
                                         + (curse.m - emi.date.m)
                      IN  IF months_diff > 3
                          THEN Ok(<<Crit("fecha_emision", "too_old")>>)
                          ELSE IF months_diff < 0
                          THEN Ok(<<Crit("fecha_emision", "future")>>)
                          ELSE Ok(If(months_diff > 2,
                                     Man("fecha_emision", "review_age")))
                 ELSE Ok(If(Ordinal(now) - Ordinal(emi.date) > 90,
                            Crit("fecha_emision", "too_old_today"))),
          Ok(RulesMonto(d, "sueldo_bruto") \o RulesMonto(d, "sueldo_liquido")
             \o RulesMonto(d, "total_descuentos")
             \o RulesMonto(d, "total_imposiciones"))
        >>)

\* RulesByType with no branch for OTRO, "unknown" and the other types
RulesByType_other_unflagged(doc_type, x, client, curse, now) ==
    CASE doc_type = CEDULA_IDENTIDAD -> RulesCedula(x, client, curse, now)
      [] doc_type = COMPROBANTE_DOMICILIO -> RulesComprobante(x, client, curse, now)
      [] doc_type = CERTIFICADO_DEUDA -> RulesCertificado(x, client, curse, now)
      [] doc_type = REFERENCIAS_PERSONALES -> RulesReferencias(x)
      [] doc_type = LIQUIDACION_SUELDO -> RulesLiquidacion(x, client, curse, now)
      [] OTHER -> Ok(<<>>)

\* lines 62-345: the dispatch on doc_type
RulesByType(doc_type, x, client, curse, now) ==
    CASE doc_type = CEDULA_IDENTIDAD -> RulesCedula(x, client, curse, now)
      [] doc_type = COMPROBANTE_DOMICILIO -> RulesComprobante(x, client, curse, now)
      [] doc_type = CERTIFICADO_DEUDA -> RulesCertificado(x, client, curse, now)
      [] doc_type = REFERENCIAS_PERSONALES -> RulesReferencias(x)
      [] doc_type = LIQUIDACION_SUELDO -> RulesLiquidacion(x, client, curse, now)
      [] doc_type = OTRO \/ doc_type = UNKNOWN_LOWER ->
           Ok(<<Man("document_type", "unknown")>>)
      [] OTHER -> Ok(<<Man("document_type", "needs_manual_validation")>>)

\* lines 34-345: every helper call of the run, in order, and whether the run
\* ends in an uncaught exception
Rules(doc_type, x, client, now) ==
    LET cd == CurseDate(client)
    IN  Blocks(<<cd.res, RulesByType(doc_type, x, client, cd.date, now)>>)

RECURSIVE AddAll(_, _)
AddAll(st, cs) == IF cs = <<>> THEN st ELSE AddAll(CallHelper(st, cs[1]), Tail(cs))

\* validate_document_data_chain as a function: what it returns, or that it
\* raises
validate_document_data_chain(doc_type, x, client, now) ==
    LET r == Rules(doc_type, x, client, now)
        st == AddAll(ValStart, r.errs)
    IN  [raised |-> r.raised,
         validation_status |-> st.validation_status,
         validation_errors |-> st.validation_errors]

(***************************************************************************)
(* Python dicts that are iterated are kept in insertion order, as a        *)
(* sequence of <<key, value>> pairs with distinct keys.                    *)
(***************************************************************************)
Keys(od) == {od[i][1] : i \in 1..Len(od)}
KeyList(od) == [i \in 1..Len(od) |-> od[i][1]]
Lookup(od, k) == od[CHOOSE i \in 1..Len(od) : od[i][1] = k][2]
\* od[k] = v: an existing key keeps its place
Store(od, k, v) ==
    IF k \in Keys(od)
    THEN [i \in 1..Len(od) |-> IF od[i][1] = k THEN <<k, v>> ELSE od[i]]
    ELSE Append(od, <<k, v>>)
\* the dict as a mapping, its order forgotten (what == and JSON objects compare)
AsMap(od) == [k \in Keys(od) |-> Lookup(od, k)]

(***************************************************************************)
(* langchain_orchestrator.py: the aggregation policy.                      *)
(***************************************************************************)
\* how many documents have a validation_status in `statuses`
CountStatus(document_results, statuses) ==
    Cardinality({i \in 1..Len(document_results) :
        GetOr(document_results[i][2], "validation_status", "ERROR") \in statuses})

RecognizedStatuses ==
    {"OK", "APROBADO", "ERROR", "FAILED_CRITICAL_ERROR",
     "PENDIENTE_MANUAL", "PENDIENTE_REVISION_MANUAL"}

\* determine_global_status with PENDIENTE_MANUAL counted among the errors
determine_global_status_pending_as_error(document_results) ==
    LET ok_count == CountStatus(document_results, {"OK", "APROBADO"})
        error_count == CountStatus(document_results,
                                   {"ERROR", "FAILED_CRITICAL_ERROR",
                                    "PENDIENTE_MANUAL"})
        total_docs == Len(document_results)
    IN  IF document_results = <<>> THEN "RECHAZADA_REVISION_AUTOMATICA"
        ELSE IF ok_count = total_docs THEN "CURSADO"
        ELSE IF error_count = total_docs THEN "RECHAZADA_REVISION_AUTOMATICA"
        ELSE "PENDIENTE_REVISION_MANUAL"

\* determine_global_status deciding a mix of OK and ERROR by the errors
determine_global_status_mix_rejected(document_results) ==
    LET ok_count == CountStatus(document_results, {"OK", "APROBADO"})
        error_count == CountStatus(document_results,
                                   {"ERROR", "FAILED_CRITICAL_ERROR"})
        total_docs == Len(document_results)
    IN  IF document_results = <<>> THEN "RECHAZADA_REVISION_AUTOMATICA"
        ELSE IF ok_count + error_count < total_docs THEN "PENDIENTE_REVISION_MANUAL"
        ELSE IF ok_count = total_docs THEN "CURSADO"
        ELSE "RECHAZADA_REVISION_AUTOMATICA"

\* determine_global_status without the test of line 20
determine_global_status_no_empty_test(document_results) ==
    LET ok_count == CountStatus(document_results, {"OK", "APROBADO"})
        error_count == CountStatus(document_results,
                                   {"ERROR", "FAILED_CRITICAL_ERROR"})
        total_docs == Len(document_results)
    IN  IF ok_count + error_count < total_docs THEN "PENDIENTE_REVISION_MANUAL"
        ELSE IF ok_count = total_docs THEN "CURSADO"
        ELSE IF error_count = total_docs THEN "RECHAZADA_REVISION_AUTOMATICA"
        ELSE "PENDIENTE_REVISION_MANUAL"

\* determine_global_status without other_count: a status the function does
\* not know is passed over
determine_global_status_other_ignored(document_results) ==
    LET ok_count == CountStatus(document_results, {"OK", "APROBADO"})
        error_count == CountStatus(document_results,
                                   {"ERROR", "FAILED_CRITICAL_ERROR"})
        pending_manual_count ==
            CountStatus(document_results,
                        {"PENDIENTE_MANUAL", "PENDIENTE_REVISION_MANUAL"})
        known == ok_count + error_count + pending_manual_count
    IN  IF document_results = <<>> THEN "RECHAZADA_REVISION_AUTOMATICA"
        ELSE IF pending_manual_count > 0 THEN "PENDIENTE_REVISION_MANUAL"
        ELSE IF ok_count = known THEN "CURSADO"
        ELSE IF error_count = known THEN "RECHAZADA_REVISION_AUTOMATICA"
        ELSE "PENDIENTE_REVISION_MANUAL"

determine_global_status(document_results) ==
    LET ok_count == CountStatus(document_results, {"OK", "APROBADO"})
        error_count == CountStatus(document_results,
                                   {"ERROR", "FAILED_CRITICAL_ERROR"})
        pending_manual_count ==
            CountStatus(document_results,
                        {"PENDIENTE_MANUAL", "PENDIENTE_REVISION_MANUAL"})
        total_docs == Len(document_results)
        other_count == total_docs - ok_count - error_count - pending_manual_count
    IN  IF document_results = <<>> THEN "RECHAZADA_REVISION_AUTOMATICA"
        ELSE IF pending_manual_count > 0 \/ other_count > 0
        THEN "PENDIENTE_REVISION_MANUAL"
        ELSE IF ok_count = total_docs THEN "CURSADO"
        ELSE IF error_count = total_docs THEN "RECHAZADA_REVISION_AUTOMATICA"
        ELSE "PENDIENTE_REVISION_MANUAL"

RECURSIVE SumLen(_)
SumLen(lists) == IF lists = <<>> THEN 0 ELSE Len(lists[1]) + SumLen(Tail(lists))

\* generate_global_summary adding one to total_errors for each document with
\* findings, whatever their number
generate_global_summary_counting_documents(document_results, global_status) ==
    LET n == Len(document_results)
        status(i) == GetOr(document_results[i][2], "validation_status", "ERROR")
        errors(i) == GetOr(document_results[i][2], "validation_errors", <<>>)
        seen == {status(i) : i \in 1..n}
        status_counts == [s \in seen |-> Cardinality({i \in 1..n : status(i) = s})]
        with_errors == SelectSeq([i \in 1..n |-> i], LAMBDA i : errors(i) # <<>>)
        error_summary ==
            [j \in 1..Len(with_errors) |->
                [document_id |-> document_results[with_errors[j]][1],
                 document_type |-> GetOr(document_results[with_errors[j]][2],
                                         "doc_type", "UNKNOWN"),
                 error_count |-> Len(errors(with_errors[j])),
                 errors |-> errors(with_errors[j])]]
        count(s) == IF s \in seen THEN status_counts[s] ELSE 0
        total_errors == Len(with_errors)
        pending_count == count("PENDIENTE_MANUAL") + count("PENDIENTE_REVISION_MANUAL")
        status_message ==
            IF global_status = "CURSADO" THEN [text |-> "all_valid"]
            ELSE IF global_status = "PENDIENTE_REVISION_MANUAL"
            THEN IF pending_count > 0
                 THEN [text |-> "pending", count |-> pending_count]
                 ELSE [text |-> "mix_of_valid_and_errors"]
            ELSE [text |-> "rejected", count |-> total_errors]
    IN  [overall_status |-> global_status,
         status_message |-> status_message,
         document_status_summary |-> status_counts,
         total_documents |-> n,
         total_errors |-> total_errors,
         documents_with_errors |-> Len(error_summary),
         error_details |-> IF error_summary # <<>> THEN error_summary ELSE None]

generate_global_summary(document_results, global_status) ==
    LET n == Len(document_results)
        status(i) == GetOr(document_results[i][2], "validation_status", "ERROR")
        errors(i) == GetOr(document_results[i][2], "validation_errors", <<>>)
        seen == {status(i) : i \in 1..n}
        status_counts == [s \in seen |-> Cardinality({i \in 1..n : status(i) = s})]
        with_errors == SelectSeq([i \in 1..n |-> i], LAMBDA i : errors(i) # <<>>)
        error_summary ==
            [j \in 1..Len(with_errors) |->
                [document_id |-> document_results[with_errors[j]][1],
                 document_type |-> GetOr(document_results[with_errors[j]][2],
                                         "doc_type", "UNKNOWN"),
                 error_count |-> Len(errors(with_errors[j])),
                 errors |-> errors(with_errors[j])]]
        count(s) == IF s \in seen THEN status_counts[s] ELSE 0
        total_errors == SumLen([i \in 1..n |-> errors(i)])
        pending_count == count("PENDIENTE_MANUAL") + count("PENDIENTE_REVISION_MANUAL")
        status_message ==
            IF global_status = "CURSADO" THEN [text |-> "all_valid"]
            ELSE IF global_status = "PENDIENTE_REVISION_MANUAL"
            THEN IF pending_count > 0
                 THEN [text |-> "pending", count |-> pending_count]
                 ELSE [text |-> "mix_of_valid_and_errors"]
            ELSE [text |-> "rejected", count |-> total_errors]
    IN  [overall_status |-> global_status,
         status_message |-> status_message,
         document_status_summary |-> status_counts,
         total_documents |-> n,
         total_errors |-> total_errors,
         documents_with_errors |-> Len(error_summary),
         error_details |-> IF error_summary # <<>> THEN error_summary ELSE None]

(***************************************************************************)
(* The programs of the model share the variables; the ones a               *)
(* specification does not run stay at these values.                        *)
(***************************************************************************)
PipelineIdle ==
    /\ payload = <<>> /\ pc = "idle" /\ pre_i = 0 /\ processed_results = <<>>
    /\ loop_i = 0 /\ cur = None /\ final_document_results = <<>>
    /\ exception = None /\ response = None /\ calls = <<>>
ValidatorIdle ==
    /\ v_doc_type = <<>> /\ v_extracted = None /\ v_todo = <<>>
    /\ v_raises = FALSE /\ validation_status = "OK"
    /\ validation_errors = <<>> /\ v_pc = "idle"
AggregatorIdle ==
    /\ agg_docs = <<>> /\ agg_status = "" /\ agg_summary = None /\ agg_pc = "idle"
ExtractorIdle == ext_args = None /\ ext_result = None

(***************************************************************************)
(* SpecAgg: determine_global_status and generate_global_summary called on  *)
(* a result map, as lines 203-204 of the orchestrator call them.           *)
(***************************************************************************)
CriticalFinding == [field |-> "run", message |-> "missing", severity |-> "CRITICAL"]
ManualFinding ==
    [field |-> "document_type", message |-> "unknown", severity |-> "MANUAL_REVIEW"]

AggEntry(status, errors) ==
    [doc_type |-> CEDULA_IDENTIDAD, validation_status |-> status,
     validation_errors |-> errors]

\* the records a result map may hold: every status the function tells apart,
\* one it does not know, and a record with no validation_status at all
AggEntries ==
    {AggEntry(s, <<>>) : s \in RecognizedStatuses \cup {"EN_PROCESO"}}
    \cup {AggEntry("ERROR", <<CriticalFinding>>),
          AggEntry("ERROR", <<CriticalFinding, ManualFinding>>),
          AggEntry("PENDIENTE_MANUAL", <<ManualFinding>>),
          [status |-> "processing_failed"]}

AggDocId(i) == <<"d", "o", "c", ToString(i)>>

AggInputs ==
    UNION {{[i \in 1..n |-> <<AggDocId(i), entries[i]>>] :
                entries \in [1..n -> AggEntries]} : n \in 0..MaxAggDocs}

InitAgg ==
    /\ client_data = EmptyDict /\ today = NoDate
    /\ PipelineIdle /\ ValidatorIdle /\ ExtractorIdle
    /\ agg_docs \in AggInputs
    /\ agg_status = "" /\ agg_summary = None /\ agg_pc = "start"

\* line 203: global_status = determine_global_status(final_document_results)
DetermineGlobalStatus ==
    /\ agg_pc = "start"
    /\ agg_status' = determine_global_status(agg_docs)
    /\ agg_pc' = "summary"
    /\ UNCHANGED <<client_data, today, pipeVars, valVars, extVars, agg_docs, agg_summary>>

\* line 204: global_summary = generate_global_summary(..., global_status)
GenerateGlobalSummary ==
    /\ agg_pc = "summary"
    /\ agg_summary' = generate_global_summary(agg_docs, agg_status)
    /\ agg_pc' = "done"
    /\ UNCHANGED <<client_data, today, pipeVars, valVars, extVars, agg_docs, agg_status>>

NextAgg == DetermineGlobalStatus \/ GenerateGlobalSummary

SpecAgg == InitAgg /\ [][NextAgg]_vars

\* the validation_status of every record of the map handed to the aggregator
AggStatusOf(i) == GetOr(agg_docs[i][2], "validation_status", "absent")
AggAll(status) == \A i \in 1..Len(agg_docs) : AggStatusOf(i) = status
AggSome(status) == \E i \in 1..Len(agg_docs) : AggStatusOf(i) = status
AggDecided == agg_pc \in {"summary", "done"}

\* C3: for a non-empty map, all OK gives CURSADO, all ERROR gives
\* RECHAZADA_REVISION_AUTOMATICA, and one PENDIENTE_MANUAL gives
\* PENDIENTE_REVISION_MANUAL whatever the other documents are.
C3_AggregationByStatus ==
    (AggDecided /\ agg_docs # <<>>) =>
        /\ AggAll("OK") => agg_status = "CURSADO"
        /\ AggAll("ERROR") => agg_status = "RECHAZADA_REVISION_AUTOMATICA"
        /\ AggSome("PENDIENTE_MANUAL") => agg_status = "PENDIENTE_REVISION_MANUAL"

\* a map of three documents, two of them ERROR and one PENDIENTE_MANUAL, decided
C3_Witness ==
    /\ AggDecided /\ Len(agg_docs) = 3
    /\ AggStatusOf(1) = "ERROR" /\ AggStatusOf(2) = "ERROR"
    /\ AggStatusOf(3) = "PENDIENTE_MANUAL"
    /\ agg_status = "PENDIENTE_REVISION_MANUAL"

\* C5: a map with an OK document and an ERROR document and no PENDIENTE_MANUAL
\* one gives PENDIENTE_REVISION_MANUAL.
C5_MixOfOkAndError ==
    (AggDecided /\ AggSome("OK") /\ AggSome("ERROR") /\ ~AggSome("PENDIENTE_MANUAL"))
        => agg_status = "PENDIENTE_REVISION_MANUAL"

\* two documents, OK then ERROR, decided by the last branch of the function
C5_Witness ==
    /\ AggDecided /\ Len(agg_docs) = 2
    /\ AggStatusOf(1) = "OK" /\ AggStatusOf(2) = "ERROR"
    /\ agg_status = "PENDIENTE_REVISION_MANUAL"

\* a record whose validation_status is there and is none of the values the
\* function counts as OK or as ERROR
AggNeitherOkNorError(i) ==
    /\ "validation_status" \in DOMAIN agg_docs[i][2]
    /\ agg_docs[i][2].validation_status
           \notin {"OK", "APROBADO", "ERROR", "FAILED_CRITICAL_ERROR"}

\* C24: a map with a document whose status is neither an OK nor an ERROR
\* value gives PENDIENTE_REVISION_MANUAL whatever the other documents are, and
\* no map gives FAILED_CRITICAL_ERROR.
C24_OtherStatusIsPending ==
    AggDecided =>
        /\ (\E i \in 1..Len(agg_docs) : AggNeitherOkNorError(i))
               => agg_status = "PENDIENTE_REVISION_MANUAL"
        /\ agg_status # "FAILED_CRITICAL_ERROR"

\* three documents, two of them ERROR and one with a status the function does
\* not know, decided
C24_Witness ==
    /\ AggDecided /\ Len(agg_docs) = 3
    /\ AggStatusOf(1) = "ERROR" /\ AggStatusOf(2) = "EN_PROCESO"
    /\ AggStatusOf(3) = "ERROR"
    /\ agg_status = "PENDIENTE_REVISION_MANUAL"

(***************************************************************************)
(* Sample texts, as the extractor and the caller write them.               *)
(***************************************************************************)
S_RUT_DOTTED == <<"1", "2", ".", "3", "4", "5", ".", "6", "7", "8", "-", "5">>
S_RUT_PLAIN == <<"1", "2", "3", "4", "5", "6", "7", "8", "-", "5">>
S_RUT_NO_DV == <<"1", "2", ".", "3", "4", "5", ".", "6", "7", "8">>
S_RUT_K == <<"1", ".", "2", "3", "4", ".", "5", "6", "7", "-", "k">>
S_RUT_ARABIC == <<"1", "2", "3", "4", "5", "6", "7", ArabicIndicThree, "-", "5">>
S_RUT_OTHER == <<"9", ".", "8", "7", "6", ".", "5", "4", "3", "-", "2">>
S_CURSE_ISO_Z ==
    <<"2", "0", "2", "5", "-", "0", "5", "-", "3", "0", "T", "0", "0", ":",
      "0", "0", ":", "0", "0", ".", "0", "0", "0", "Z">>
S_CURSE_YMD == <<"2", "0", "2", "5", "-", "0", "5", "-", "3", "0">>
S_NOT_A_DATE == <<"n", "o", "t", "-", "a", "-", "d", "a", "t", "e">>
S_DMY == <<"3", "0", "/", "0", "5", "/", "2", "0", "2", "5">>
S_JUAN == <<"J", "u", "a", "n">>
S_JUAN_UPPER == <<" ", "J", "U", "A", "N", " ">>
S_PEDRO == <<"P", "e", "d", "r", "o">>
S_PEREZ == <<"P", "e", "r", "e", "z">>
S_SOTO == <<"S", "o", "t", "o">>
S_X == <<"x">>
S_SIN ==
    <<"S", "I", "N", " ", "A", "N", "O", "T", "A", "C", "I", "O", "N", "E",
      "S">>
S_CON ==
    <<"C", "o", "n", " ", "A", "n", "o", "t", "a", "c", "i", "o", "n", "e",
      "s">>
S_VIGENTE == <<"v", "i", "g", "e", "n", "t", "e">>
S_SIN_Y_CON ==
    <<"C", "o", "n", " ", "a", "n", "o", "t", "a", "c", "i", "o", "n", "e",
      "s", ";", " ", "s", "i", "n", " ", "a", "n", "o", "t", "a", "c", "i",
      "o", "n", "e", "s", " ", "p", "r", "e", "v", "i", "a", "s">>
S_PHONE_MOBILE ==
    <<"+", "5", "6", " ", "9", " ", "1", "2", "3", "4", " ", "5", "6", "7",
      "8">>
S_PHONE_FIXED == <<"2", "2", "3", "4", "5", "6", "7", "8">>
S_PHONE_BAD == <<"1", "2", "3", "4", "5">>
S_MONTO_DOTS == <<"1", ".", "2", "3", "4", ".", "5", "6", "7">>
S_MONTO_COMMA == <<"1", ".", "2", "3", "4", ",", "5", "6">>
S_MONTO_BAD == <<"a", "b", "c">>
S_SOL1 == <<"S", "-", "1">>
S_PASAPORTE == <<"P", "A", "S", "A", "P", "O", "R", "T", "E">>

\* a date written YYYY-MM-DD
Pad2(n) == <<ToString(n \div 10), ToString(n % 10)>>
YMD(y, m, d) ==
    <<ToString(y \div 1000), ToString((y \div 100) % 10),
      ToString((y \div 10) % 10), ToString(y % 10)>>
    \o <<"-">> \o Pad2(m) \o <<"-">> \o Pad2(d)

\* a field the map does not hold
Absent == [tag |-> "absent"]
Present(r) == [k \in {f \in DOMAIN r : r[f] # Absent} |-> r[k]]

(***************************************************************************)
(* The inputs of validate_document_data_chain: client_data as the endpoint *)
(* hands it over (ClientData.model_dump(): every key present, an optional  *)
(* field the caller left out is None), and extracted_data as json.loads    *)
(* returns it (any JSON value; a field the model left out is null or       *)
(* missing).  The curse date of the samples is 2025-05-30.                 *)
(***************************************************************************)
Client(curse, paterno, materno, rut) ==
    [solicitud_id |-> Str(S_SOL1),
     solicitud_fecha_curse |-> curse,
     cliente_nombres |-> Str(S_JUAN),
     cliente_apellido_paterno |-> paterno,
     cliente_apellido_materno |-> materno,
     cliente_rut |-> rut]

CurseSamples == {None, Str(S_CURSE_ISO_Z), Str(S_CURSE_YMD), Str(S_NOT_A_DATE)}

Clients ==
    {Client(c, Str(S_PEREZ), Str(<<>>), Str(S_RUT_PLAIN)) : c \in CurseSamples}
    \cup {Client(c, None, None, None) : c \in CurseSamples}
    \cup {Client(Num(20250530), Str(S_PEREZ), Str(<<>>), Str(S_RUT_PLAIN))}

Todays == {Date(2025, 6, 15)}

OffSchema == {None, Str(S_X), List(<<>>)}

CedulaSamples ==
    {Dict(Present(
        [nombre_completo |-> nc, nombres |-> n, apellido_paterno |-> ap,
         run |-> r, fecha_nacimiento |-> fn, fecha_emision |-> fe,
         fecha_vencimiento |-> fv, sexo |-> sx])) :
        nc \in {Str(S_X), None},
        n \in {Str(S_JUAN_UPPER), Str(S_PEDRO), None},
        ap \in {Str(S_PEREZ), Absent},
        r \in {Str(S_RUT_DOTTED), Str(S_RUT_NO_DV), Str(S_RUT_OTHER), Absent},
        fn \in {Str(YMD(1990, 1, 1)), Str(S_DMY)},
        fe \in {Absent, Num(20200101)},
        fv \in {Str(YMD(2030, 1, 1)), Str(YMD(2025, 5, 29)),
                Str(YMD(2025, 5, 30)), Str(YMD(2025, 6, 1)),
                Str(S_NOT_A_DATE), Absent},
        sx \in {Str(<<"m">>), Str(S_X), Absent}}

ComprobanteSamples ==
    {Dict(Present(
        [nombre_titular |-> nt, direccion_completa |-> Str(S_X),
         empresa_emisora |-> Str(S_X), fecha_emision |-> fe,
         fecha_vencimiento |-> fv, nombres |-> n, apellido_paterno |-> ap])) :
        nt \in {Str(S_X), Absent},
        fe \in {Str(YMD(2025, 5, 30)), Str(YMD(2025, 3, 31)),
                Str(YMD(2025, 3, 30)), Str(YMD(2025, 5, 31)),
                Str(S_NOT_A_DATE), Absent},
        fv \in {Absent, Str(YMD(2025, 5, 20)), Str(YMD(2025, 5, 19)),
                Str(S_DMY), Num(20250520)},
        n \in {Str(S_JUAN), Str(S_PEDRO), Absent, None},
        ap \in {Str(S_PEREZ), Str(S_SOTO)}}

CertificadoSamples ==
    {Dict(Present(
        [nombre_titular |-> nt, run_titular |-> r, estado_deuda |-> ed,
         fecha_emision |-> fe])) :
        nt \in {Str(S_X), Absent},
        r \in {Str(S_RUT_DOTTED), Str(S_RUT_OTHER), Absent, None},
        ed \in {Str(S_SIN), Str(S_CON), Str(S_VIGENTE), Str(S_SIN_Y_CON), None,
               Num(1)},
        fe \in {Str(YMD(2025, 5, 30)), Str(YMD(2025, 5, 29)),
                Str(YMD(2025, 5, 31)), Str(S_NOT_A_DATE), Absent}}

MaxRefs == 2      \* entries of a REFERENCIAS_PERSONALES list

ReferenceSamples ==
    {Dict(Present([nombre_referencia |-> n, relacion |-> Str(S_X),
                   numero_telefono |-> t])) :
        n \in {Str(S_PEDRO), None},
        t \in {Str(S_PHONE_MOBILE), Str(S_PHONE_FIXED), Str(S_PHONE_BAD), None,
               Num(569123456)}}
    \cup {Str(S_X)}

ReferenciasSamples ==
    {List(l) : l \in UNION {[1..n -> ReferenceSamples] : n \in 0..MaxRefs}}
    \cup {Dict([referencias |-> List(<<>>)])}

LiquidacionSamples ==
    {Dict(Present(
        [nombre_empleado |-> Str(S_X), run_empleado |-> r,
         rut_empresa |-> Str(S_RUT_K), nombre_empresa |-> Str(S_X),
         cargo |-> cg, periodo |-> Str(S_X), fecha_emision |-> fe,
         sueldo_bruto |-> sb, sueldo_liquido |-> sl,
         total_descuentos |-> td, total_imposiciones |-> Num(50000)])) :
        r \in {Str(S_RUT_PLAIN), Str(S_RUT_NO_DV), Str(S_RUT_ARABIC),
               Num(123456785)},
        cg \in {Str(S_X), Absent},
        fe \in {Str(YMD(2025, 5, 30)), Str(YMD(2025, 5, 31)),
                Str(YMD(2025, 3, 1)), Str(YMD(2025, 2, 28)),
                Str(YMD(2025, 1, 31)), Str(YMD(2025, 6, 1)),
                Str(S_DMY), Absent},
        sb \in {Num(1234567), Str(S_MONTO_DOTS), Str(S_MONTO_BAD), None},
        sl \in {Num(987654), Str(S_MONTO_COMMA), Num(0)},
        td \in {Num(100000), Absent, List(<<>>)}}

DocTypes ==
    {CEDULA_IDENTIDAD, COMPROBANTE_DOMICILIO, CERTIFICADO_DEUDA,
     REFERENCIAS_PERSONALES, LIQUIDACION_SUELDO, OTRO, UNKNOWN_LOWER, S_PASAPORTE}

ExtractedSamples(doc_type) ==
    CASE doc_type = CEDULA_IDENTIDAD -> CedulaSamples \cup OffSchema
      [] doc_type = COMPROBANTE_DOMICILIO -> ComprobanteSamples \cup OffSchema
      [] doc_type = CERTIFICADO_DEUDA -> CertificadoSamples \cup OffSchema
      [] doc_type = REFERENCIAS_PERSONALES -> ReferenciasSamples \cup OffSchema
      [] doc_type = LIQUIDACION_SUELDO -> LiquidacionSamples \cup OffSchema
      [] OTHER -> {Dict([text_content |-> Str(S_X)])} \cup OffSchema

(***************************************************************************)
(* SpecValidate: one run of validate_document_data_chain, helper call by   *)
(* helper call.  v_todo holds the helper calls the rest of the run makes   *)
(* and v_raises whether it then ends in an exception.                      *)
(***************************************************************************)
InitValidate ==
    /\ PipelineIdle /\ AggregatorIdle /\ ExtractorIdle
    /\ client_data \in Clients
    /\ today \in Todays
    /\ v_doc_type \in DocTypes
    /\ v_extracted \in ExtractedSamples(v_doc_type)
    /\ v_todo = Rules(v_doc_type, v_extracted, client_data, today).errs
    /\ v_raises = Rules(v_doc_type, v_extracted, client_data, today).raised
    /\ validation_status = ValStart.validation_status
    /\ validation_errors = ValStart.validation_errors
    /\ v_pc = "running"

ValState == [validation_status |-> validation_status,
             validation_errors |-> validation_errors]

\* a rule calls add_critical_error(field, message)
AddCriticalError ==
    /\ v_pc = "running" /\ v_todo # <<>>
    /\ Head(v_todo).helper = "add_critical_error"
    /\ LET st == add_critical_error(ValState, Head(v_todo).field, Head(v_todo).message)
       IN  /\ validation_status' = st.validation_status
           /\ validation_errors' = st.validation_errors
    /\ v_todo' = Tail(v_todo)
    /\ UNCHANGED <<client_data, today, pipeVars, aggVars, extVars,
                   v_doc_type, v_extracted, v_raises, v_pc>>

\* a rule calls add_manual_review_error(field, message)
AddManualReviewError ==
    /\ v_pc = "running" /\ v_todo # <<>>
    /\ Head(v_todo).helper = "add_manual_review_error"
    /\ LET st == add_manual_review_error(ValState, Head(v_todo).field,
                                         Head(v_todo).message)
       IN  /\ validation_status' = st.validation_status
           /\ validation_errors' = st.validation_errors
    /\ v_todo' = Tail(v_todo)
    /\ UNCHANGED <<client_data, today, pipeVars, aggVars, extVars,
                   v_doc_type, v_extracted, v_raises, v_pc>>

\* lines 357-360: return {"validation_status": ..., "validation_errors": ...}
ValidateReturn ==
    /\ v_pc = "running" /\ v_todo = <<>> /\ ~v_raises
    /\ v_pc' = "returned"
    /\ UNCHANGED <<client_data, today, pipeVars, aggVars, extVars, v_doc_type, v_extracted,
                   v_todo, v_raises, validation_status, validation_errors>>

\* an AttributeError or TypeError leaves the function
ValidateRaise ==
    /\ v_pc = "running" /\ v_todo = <<>> /\ v_raises
    /\ v_pc' = "raised"
    /\ UNCHANGED <<client_data, today, pipeVars, aggVars, extVars, v_doc_type, v_extracted,
                   v_todo, v_raises, validation_status, validation_errors>>

NextValidate ==
    AddCriticalError \/ AddManualReviewError \/ ValidateReturn \/ ValidateRaise

SpecValidate == InitValidate /\ [][NextValidate]_vars

\* a finding's severity; the findings of lines 131-134, 146-149 and 178-181
\* carry none
Severity(finding) == GetOr(finding, "severity", "none")
HasSeverity(errors, severity) ==
    \E i \in 1..Len(errors) : Severity(errors[i]) = severity

\* C1: on every run that returns, the status is ERROR iff a CRITICAL finding
\* was added, PENDIENTE_MANUAL iff no CRITICAL and some MANUAL_REVIEW finding
\* was added, and OK iff no finding was added, in whatever order they came.
C1_StatusFollowsSeverities ==
    v_pc = "returned" =>
        /\ validation_status = "ERROR" <=> HasSeverity(validation_errors, "CRITICAL")
        /\ validation_status = "PENDIENTE_MANUAL" <=>
               /\ ~HasSeverity(validation_errors, "CRITICAL")
               /\ HasSeverity(validation_errors, "MANUAL_REVIEW")
        /\ validation_status = "OK" <=> validation_errors = <<>>

\* a returned run that added a CRITICAL finding, then a MANUAL_REVIEW one, then
\* another CRITICAL one
C1_Witness ==
    /\ v_pc = "returned"
    /\ \E i, j, k \in 1..Len(validation_errors) :
          /\ i < j /\ j < k
          /\ validation_errors[i].severity = "CRITICAL"
          /\ validation_errors[j].severity = "MANUAL_REVIEW"
          /\ validation_errors[k].severity = "CRITICAL"


(***************************************************************************)
(* os.path.basename and os.path.splitext (posixpath).                      *)
(***************************************************************************)
LastIndex(s, c) ==
    IF \E i \in 1..Len(s) : s[i] = c
    THEN CHOOSE i \in 1..Len(s) : s[i] = c /\ \A j \in (i + 1)..Len(s) : s[j] # c
    ELSE 0

basename(p) == SubSeq(p, LastIndex(p, "/") + 1, Len(p))

\* splitext(p)[1]: from the last dot of the last component, unless only dots
\* come before it
splitext_ext(p) ==
    LET b == basename(p)
        dot == LastIndex(b, ".")
    IN  IF dot > 0 /\ \E i \in 1..(dot - 1) : b[i] # "."
        THEN SubSeq(b, dot, Len(b))
        ELSE <<>>

(***************************************************************************)
(* json.loads on the texts the model's replies are drawn from: null, true, *)
(* false, integers, strings without escapes, arrays and objects, with      *)
(* whitespace between tokens.  Anything else is a JSONDecodeError.         *)
(***************************************************************************)
Bool(b) == [tag |-> "bool", v |-> b]
JsonWs == {" ", "\n", "\t", "\r"}
JsonFail == [ok |-> FALSE, v |-> None, i |-> 0]
JsonOk(v, i) == [ok |-> TRUE, v |-> v, i |-> i]

\* the first index from i on that holds no whitespace (Len(s) + 1 at the end)
SkipWs(s, i) ==
    CHOOSE j \in i..(Len(s) + 1) :
        /\ j = Len(s) + 1 \/ s[j] \notin JsonWs
        /\ \A k \in i..(j - 1) : s[k] \in JsonWs

HasLiteral(s, i, w) == i + Len(w) - 1 <= Len(s) /\ SubSeq(s, i, i + Len(w) - 1) = w

\* s[i] is the opening quote
ParseString(s, i) ==
    LET ends == {j \in (i + 1)..Len(s) : s[j] = "\""}
    IN  IF ends = {} THEN JsonFail
        ELSE LET j == CHOOSE e \in ends : \A f \in ends : e <= f
                 body == SubSeq(s, i + 1, j - 1)
             IN  IF \E k \in 1..Len(body) : body[k] \in {"\\", "\n", "\t", "\r"}
                 THEN JsonFail
                 ELSE JsonOk(Str(body), j + 1)

\* an integer: -?(0|[1-9][0-9]*), not followed by a fraction or an exponent
ParseNumber(s, i) ==
    LET d == IF s[i] = "-" THEN i + 1 ELSE i
        e == CHOOSE j \in d..(Len(s) + 1) :
                 /\ j = Len(s) + 1 \/ s[j] \notin Digits
                 /\ \A k \in d..(j - 1) : s[k] \in Digits
        digits == SubSeq(s, d, e - 1)
    IN  IF \/ digits = <<>>
           \/ Len(digits) > 1 /\ digits[1] = "0"
           \/ e <= Len(s) /\ s[e] \in {".", "e", "E"}
        THEN JsonFail
        ELSE JsonOk(Num(IF d = i THEN ToNat(digits) ELSE 0 - ToNat(digits)), e)

\* the keys of the objects: Python str to the field name
KeyOf(cs) ==
    CASE cs = <<"n","o","m","b","r","e","_","t","i","t","u","l","a","r">> ->
           "nombre_titular"
      [] cs = <<"r","u","n","_","t","i","t","u","l","a","r">> -> "run_titular"
      [] cs = <<"e","s","t","a","d","o","_","d","e","u","d","a">> -> "estado_deuda"
      [] cs = <<"f","e","c","h","a","_","e","m","i","s","i","o","n">> ->
           "fecha_emision"
      [] cs = <<"t","i","p","o","_","c","e","r","t","i","f","i","c","a","d","o">> ->
           "tipo_certificado"
      [] cs = <<"n","o","m","b","r","e","_","r","e","f","e","r","e","n","c","i","a">> ->
           "nombre_referencia"
      [] cs = <<"r","e","l","a","c","i","o","n">> -> "relacion"
      [] cs = <<"n","u","m","e","r","o","_","t","e","l","e","f","o","n","o">> ->
           "numero_telefono"
      [] OTHER -> "other_key"

RECURSIVE ParseValue(_, _), ParseElements(_, _, _), ParseMembers(_, _, _)
ParseValue(s, i0) ==
    LET i == SkipWs(s, i0)
    IN  IF i > Len(s) THEN JsonFail
        ELSE CASE s[i] = "\"" -> ParseString(s, i)
               [] s[i] = "[" ->
                    IF SkipWs(s, i + 1) <= Len(s) /\ s[SkipWs(s, i + 1)] = "]"
                    THEN JsonOk(List(<<>>), SkipWs(s, i + 1) + 1)
                    ELSE ParseElements(s, i + 1, <<>>)
               [] s[i] = "{" ->
                    IF SkipWs(s, i + 1) <= Len(s) /\ s[SkipWs(s, i + 1)] = "}"
                    THEN JsonOk(Dict(EmptyDict), SkipWs(s, i + 1) + 1)
                    ELSE ParseMembers(s, i + 1, EmptyDict)
               [] s[i] \in Digits \cup {"-"} -> ParseNumber(s, i)
               [] HasLiteral(s, i, <<"n","u","l","l">>) -> JsonOk(None, i + 4)
               [] HasLiteral(s, i, <<"t","r","u","e">>) -> JsonOk(Bool(TRUE), i + 4)
               [] HasLiteral(s, i, <<"f","a","l","s","e">>) ->
                    JsonOk(Bool(FALSE), i + 5)
               [] OTHER -> JsonFail

\* value (, value)* ]
ParseElements(s, i, acc) ==
    LET v == ParseValue(s, i)
        j == SkipWs(s, v.i)
    IN  IF ~v.ok \/ j > Len(s) THEN JsonFail
        ELSE IF s[j] = "]" THEN JsonOk(List(Append(acc, v.v)), j + 1)
        ELSE IF s[j] = "," THEN ParseElements(s, j + 1, Append(acc, v.v))
        ELSE JsonFail

\* "key" : value (, "key" : value)* }   a repeated key keeps its last value
ParseMembers(s, i0, acc) ==
    LET i == SkipWs(s, i0)
        k == IF i <= Len(s) /\ s[i] = "\"" THEN ParseString(s, i) ELSE JsonFail
        c == IF k.ok THEN SkipWs(s, k.i) ELSE 0
        v == IF k.ok /\ c <= Len(s) /\ s[c] = ":" THEN ParseValue(s, c + 1)
             ELSE JsonFail
        j == IF v.ok THEN SkipWs(s, v.i) ELSE 0
        dict == [f \in DOMAIN acc \cup {KeyOf(k.v.v)} |->
                    IF f = KeyOf(k.v.v) THEN v.v ELSE acc[f]]
    IN  IF ~v.ok \/ j > Len(s) THEN JsonFail
        ELSE IF s[j] = "}" THEN JsonOk(Dict(dict), j + 1)
        ELSE IF s[j] = "," THEN ParseMembers(s, j + 1, dict)
        ELSE JsonFail

json_loads(s) ==
    LET r == ParseValue(s, 1)
    IN  IF r.ok /\ SkipWs(s, r.i) = Len(s) + 1 THEN [ok |-> TRUE, v |-> r.v]
        ELSE [ok |-> FALSE, v |-> None]



(***************************************************************************)
(* The literals of the three chains.                                       *)
(***************************************************************************)
\* the character a TLA+ string cannot hold
Backtick == "BACKTICK"
EXT_PDF == <<".", "p", "d", "f">>
EXT_JPG == <<".", "j", "p", "g">>
EXT_JPEG == <<".", "j", "p", "e", "g">>
EXT_PNG == <<".", "p", "n", "g">>
APPLICATION_PDF ==
    <<"a", "p", "p", "l", "i", "c", "a", "t", "i", "o", "n", "/", "p", "d",
      "f">>
IMAGE_JPEG == <<"i", "m", "a", "g", "e", "/", "j", "p", "e", "g">>
IMAGE_PNG == <<"i", "m", "a", "g", "e", "/", "p", "n", "g">>
FENCE_OPEN == <<Backtick, Backtick, Backtick, "j", "s", "o", "n">>
FENCE_CLOSE == <<Backtick, Backtick, Backtick>>
\* a formatted message, named by its template; `detail` is what it embeds
Msg(text) == [tag |-> "str", text |-> text]
MsgOf(text, detail) == [tag |-> "str", text |-> text, detail |-> detail]

\* d.update(u)
Update(d, u) ==
    [k \in DOMAIN d \cup DOMAIN u |-> IF k \in DOMAIN u THEN u[k] ELSE d[k]]

(***************************************************************************)
(* agents/preprocessing.py, one iteration of the loop of                   *)
(* preprocess_documents_chain, from line 57 on.  `file` is what is on disk *)
(* at doc_path (whether it opens, and for a PDF the digital text of each   *)
(* page); `ocr` is the reply of the multimodal model.  `model_calls` is    *)
(* the number of calls of LLM.ainvoke.                                     *)
(***************************************************************************)
RECURSIVE DigitalText(_)
\* lines 74-80: the pages with digital text, each followed by a newline
DigitalText(pages) ==
    IF pages = <<>> THEN <<>>
    ELSE (IF strip(pages[1]) # <<>> THEN pages[1] \o <<"\n">> ELSE <<>>)
         \o DigitalText(Tail(pages))

\* lines 82-101: the pages queued as images for the model
ImagePages(pages) == SelectSeq(pages, LAMBDA page : strip(page) = <<>>)

\* lines 236-238 and 245-250
Processed(doc_path, extracted_content, status, error_msg, model_calls) ==
    LET normalised == IF extracted_content # <<>>
                      THEN strip(join(split(extracted_content)))
                      ELSE extracted_content
    IN  [result |-> [filepath |-> doc_path,
                     raw_text |-> IF normalised # <<>> THEN Str(normalised)
                                  ELSE None,
                     status |-> status,
                     error_message |-> error_msg],
         model_calls |-> model_calls]

\* lines 240-250: an exception inside the try; extracted_content is still ""
ProcessingFailed(doc_path, model_calls) ==
    [result |-> [filepath |-> doc_path, raw_text |-> None,
                 status |-> "processing_failed",
                 error_message |-> Msg("Error general al procesar con LLM multimodal")],
     model_calls |-> model_calls]

\* lines 146-155 and 219-228: the model's reply to the page images
OcrResult(doc_path, ocr, no_text_message) ==
    IF ocr.raises THEN ProcessingFailed(doc_path, 1)
    ELSE IF strip(ocr.content) # <<>>
    THEN Processed(doc_path, ocr.content, "processed_llm_ocr", None, 1)
    ELSE Processed(doc_path, ocr.content, "no_text_found_by_llm",
                   Msg(no_text_message), 1)

\* preprocess_document sending the image-only pages of a PDF to the model
\* whether or not other pages gave digital text
preprocess_document_ocr_first(doc_path, path, file, ocr) ==
    LET file_extension == lower(splitext_ext(path))
        pdf_text_extracted_digital == DigitalText(file.pages)
    IN  IF file_extension = EXT_PDF
        THEN IF ~file.opens THEN ProcessingFailed(doc_path, 0)
             ELSE IF ImagePages(file.pages) # <<>>
             THEN OcrResult(doc_path, ocr,
                            "El LLM no pudo extraer texto del PDF escaneado.")
             ELSE IF strip(pdf_text_extracted_digital) # <<>>
             THEN Processed(doc_path, pdf_text_extracted_digital,
                            "processed_digital_pdf", None, 0)
             ELSE Processed(doc_path, <<>>, "no_content",
                            Msg("El PDF no contiene texto digital ni imagenes procesables."),
                            0)
        ELSE IF file_extension \in {EXT_JPG, EXT_JPEG, EXT_PNG}
        THEN IF ~file.opens THEN ProcessingFailed(doc_path, 0)
             ELSE OcrResult(doc_path, ocr,
                            "El LLM no pudo extraer texto de la imagen directa.")
        ELSE Processed(doc_path, <<>>, "unsupported_format",
                       MsgOf("Formato de archivo no soportado para preprocesamiento",
                             file_extension),
                       0)

preprocess_document(doc_path, path, file, ocr) ==
    LET file_extension == lower(splitext_ext(path))
        pdf_text_extracted_digital == DigitalText(file.pages)
    IN  IF file_extension = EXT_PDF
        THEN IF ~file.opens THEN ProcessingFailed(doc_path, 0)
             ELSE IF strip(pdf_text_extracted_digital) # <<>>
             THEN Processed(doc_path, pdf_text_extracted_digital,
                            "processed_digital_pdf", None, 0)
             ELSE IF ImagePages(file.pages) # <<>>
             THEN OcrResult(doc_path, ocr,
                            "El LLM no pudo extraer texto del PDF escaneado.")
             ELSE Processed(doc_path, <<>>, "no_content",
                            Msg("El PDF no contiene texto digital ni imagenes procesables."),
                            0)
        ELSE IF file_extension \in {EXT_JPG, EXT_JPEG, EXT_PNG}
        THEN IF ~file.opens THEN ProcessingFailed(doc_path, 0)
             ELSE OcrResult(doc_path, ocr,
                            "El LLM no pudo extraer texto de la imagen directa.")
        ELSE Processed(doc_path, <<>>, "unsupported_format",
                       MsgOf("Formato de archivo no soportado para preprocesamiento",
                             file_extension),
                       0)

(***************************************************************************)
(* agents/classification.py.  `reply` is the reply of the model.           *)
(***************************************************************************)
allowed_types ==
    {CEDULA_IDENTIDAD, LIQUIDACION_SUELDO, COMPROBANTE_DOMICILIO,
     CERTIFICADO_DEUDA, REFERENCIAS_PERSONALES, OTRO}

\* classify_document_chain comparing the reply as the model wrote it
classify_document_chain_unnormalised(raw_text, reply) ==
    IF ~IsStr(raw_text) THEN [raised |-> TRUE]
    ELSE IF ~reply.raises /\ reply.content \in allowed_types
    THEN [raised |-> FALSE,
          doc_type |-> reply.content,
          classification_status |-> "classified",
          classification_error |-> None]
    ELSE [raised |-> FALSE,
          doc_type |-> OTRO,
          classification_status |-> "failed",
          classification_error |-> Msg("Error al clasificar documento")]

classify_document_chain(raw_text, reply) ==
    IF ~IsStr(raw_text)
    THEN \* line 41, outside the try: len(None) is a TypeError
         [raised |-> TRUE]
    ELSE IF reply.raises
    THEN [raised |-> FALSE,
          doc_type |-> OTRO,
          classification_status |-> "failed",
          classification_error |-> Msg("Error al clasificar documento")]
    ELSE LET predicted_type == upper(strip(reply.content))
         IN  IF predicted_type \in allowed_types
             THEN [raised |-> FALSE,
                   doc_type |-> predicted_type,
                   classification_status |-> "classified",
                   classification_error |-> None]
             ELSE [raised |-> FALSE,
                   doc_type |-> OTRO,
                   classification_status |-> "failed",
                   classification_error |->
                       MsgOf("El LLM devolvio un tipo inesperado", predicted_type)]

(***************************************************************************)
(* agents/extraction.py.  `source` is what base64_content holds (whether   *)
(* it decodes, whether the bytes open as a document, and for a PDF its     *)
(* number of pages); `reply` is the reply of the model.                    *)
(***************************************************************************)
ExtractionResult(data, status, error, model_calls) ==
    [extracted_data |-> data, extraction_status |-> status,
     extraction_error |-> error, model_calls |-> model_calls]

\* lines 276-284: an exception inside the try
ExtractionFailed(model_calls) ==
    ExtractionResult(Dict(EmptyDict), "failed",
                     Msg("Error general al extraer datos"), model_calls)

\* lines 259-273: the reply, freed of its markdown fence, parsed as JSON
ParseReply(raw_llm_output) ==
    LET stripped == strip(raw_llm_output)
        json_str ==
            IF startswith(stripped, FENCE_OPEN) /\ endswith(stripped, FENCE_CLOSE)
            THEN strip(SubSeq(stripped, Len(FENCE_OPEN) + 1,
                              Len(stripped) - Len(FENCE_CLOSE)))
            ELSE stripped
        parsed == json_loads(json_str)
    IN  IF parsed.ok THEN ExtractionResult(parsed.v, "extracted", None, 1)
        ELSE ExtractionResult(Dict([raw_llm_output |-> Str(raw_llm_output)]),
                              "failed_json_parse",
                              Msg("La respuesta del LLM no es un JSON valido"), 1)

prompted_types ==
    {CEDULA_IDENTIDAD, COMPROBANTE_DOMICILIO, CERTIFICADO_DEUDA,
     REFERENCIAS_PERSONALES, LIQUIDACION_SUELDO}

\* extract_credit_data_chain sending every rendered document to the model,
\* without the branch of lines 221-237 for a type that has no prompt
extract_credit_data_chain_always_prompting(raw_text, doc_type, content_type, source, reply) ==
    LET images == IF content_type = APPLICATION_PDF THEN source.pages ELSE 1
    IN  IF ~source.decodes THEN ExtractionFailed(0)
        ELSE IF content_type \notin {APPLICATION_PDF, IMAGE_JPEG, IMAGE_PNG}
        THEN ExtractionResult(Dict(EmptyDict), "failed",
                              MsgOf("Tipo de contenido no soportado", content_type),
                              0)
        ELSE IF ~source.opens THEN ExtractionFailed(0)
        ELSE IF images = 0
        THEN ExtractionResult(Dict(EmptyDict), "failed",
                              Msg("No se pudo preparar ninguna imagen"), 0)
        ELSE IF reply.raises THEN ExtractionFailed(1)
        ELSE ParseReply(reply.content)

extract_credit_data_chain(raw_text, doc_type, content_type, source, reply) ==
    LET images == IF content_type = APPLICATION_PDF THEN source.pages ELSE 1
    IN  IF ~source.decodes THEN ExtractionFailed(0)
        ELSE IF content_type \notin {APPLICATION_PDF, IMAGE_JPEG, IMAGE_PNG}
        THEN ExtractionResult(Dict(EmptyDict), "failed",
                              MsgOf("Tipo de contenido no soportado", content_type),
                              0)
        ELSE IF ~source.opens THEN ExtractionFailed(0)
        ELSE IF images = 0
        THEN ExtractionResult(Dict(EmptyDict), "failed",
                              Msg("No se pudo preparar ninguna imagen"), 0)
        ELSE IF doc_type \notin prompted_types
        THEN IF Truthy(raw_text)
             THEN ExtractionResult(Dict([text_content |-> raw_text]),
                                   "extracted_raw_text", None, 0)
             ELSE ExtractionResult(Dict(EmptyDict), "failed",
                                   Msg("No hay texto pre-extraido"), 0)
        ELSE IF reply.raises THEN ExtractionFailed(1)
        ELSE ParseReply(reply.content)


(***************************************************************************)
(* The requests of the model: the documents, what the disk and the models  *)
(* answer for each, and the client records.                                *)
(***************************************************************************)
TEXT_PLAIN == <<"t", "e", "x", "t", "/", "p", "l", "a", "i", "n">>
PATH_A_PDF == <<"/", "t", "/", "a", ".", "p", "d", "f">>
PATH_U_A_PDF == <<"/", "u", "/", "a", ".", "p", "d", "f">>
PATH_B_PNG == <<"/", "t", "/", "b", ".", "P", "N", "G">>
PATH_C_TXT == <<"/", "t", "/", "c", ".", "t", "x", "t">>
PATH_D_JPG == <<"/", "t", "/", "d", ".", "j", "p", "g">>
NAME_A_PDF == <<"a", ".", "p", "d", "f">>
NAME_B_PNG == <<"b", ".", "P", "N", "G">>
NAME_D_JPG_UPPER == <<"D", ".", "J", "P", "G">>
S_B64 == <<"J", "V", "B", "E", "R", "i", "0", "=">>
\* a page with digital text
PAGE_TEXT ==
    <<"C", "e", "r", "t", "i", "f", "i", "c", "a", "d", "o", " ", "\n", " ",
      "d", "e", " ", "d", "e", "u", "d", "a">>
\* a scanned page: no digital text
PAGE_BLANK == <<" ", "\n">>
OCR_TEXT ==
    <<" ", "C", "e", "r", "t", "i", "f", "i", "c", "a", "d", "o", " ", " ",
      "d", "e", " ", "d", "e", "u", "d", "a", "\n">>
OCR_BLANK == <<"\n", " ">>
REPLY_CERTIFICADO ==
    <<" ", "c", "e", "r", "t", "i", "f", "i", "c", "a", "d", "o", "_", "d",
      "e", "u", "d", "a", "\n">>
REPLY_FACTURA == <<"F", "a", "c", "t", "u", "r", "a">>
\* a certificate that passes every rule, fenced as the prompt shows it
JSON_CERT_FENCED ==
    <<Backtick, Backtick, Backtick, "j", "s", "o", "n", "\n", "{", "\"", "n",
      "o", "m", "b", "r", "e", "_", "t", "i", "t", "u", "l", "a", "r", "\"",
      ":", " ", "\"", "x", "\"", ",", " ", "\"", "r", "u", "n", "_", "t",
      "i", "t", "u", "l", "a", "r", "\"", ":", " ", "\"", "1", "2", ".", "3",
      "4", "5", ".", "6", "7", "8", "-", "5", "\"", ",", " ", "\"", "e", "s",
      "t", "a", "d", "o", "_", "d", "e", "u", "d", "a", "\"", ":", " ", "\"",
      "S", "I", "N", " ", "A", "N", "O", "T", "A", "C", "I", "O", "N", "E",
      "S", "\"", ",", " ", "\"", "f", "e", "c", "h", "a", "_", "e", "m", "i",
      "s", "i", "o", "n", "\"", ":", " ", "\"", "2", "0", "2", "5", "-", "0",
      "5", "-", "3", "0", "\"", "}", "\n", Backtick, Backtick, Backtick>>
\* a field the model could not read, left null as the prompt asks
JSON_CERT_NULL_RUN ==
    <<"{", "\"", "n", "o", "m", "b", "r", "e", "_", "t", "i", "t", "u", "l",
      "a", "r", "\"", ":", " ", "\"", "x", "\"", ",", " ", "\"", "r", "u",
      "n", "_", "t", "i", "t", "u", "l", "a", "r", "\"", ":", " ", "n", "u",
      "l", "l", ",", " ", "\"", "e", "s", "t", "a", "d", "o", "_", "d", "e",
      "u", "d", "a", "\"", ":", " ", "\"", "S", "I", "N", " ", "A", "N", "O",
      "T", "A", "C", "I", "O", "N", "E", "S", "\"", ",", " ", "\"", "f", "e",
      "c", "h", "a", "_", "e", "m", "i", "s", "i", "o", "n", "\"", ":", " ",
      "\"", "2", "0", "2", "5", "-", "0", "5", "-", "3", "0", "\"", "}">>
\* an off-schema reply: a list where an object is expected
JSON_LIST == <<"[", "]">>
NOT_JSON == <<"L", "o", " ", "s", "i", "e", "n", "t", "o">>

\* an element of documents_base64_payload as the endpoint passes it: a
\* pydantic Document, which is no path
ModelDoc(filename, content_type) ==
    [kind |-> "model", filename |-> filename, base64_content |-> S_B64,
     content_type |-> content_type]
\* a path (a str), as preprocess_documents_chain declares its elements
PathDoc(path) == [kind |-> "path", path |-> path]
\* a path that also carries the attributes of a Document (an os.PathLike
\* object, or a subclass of str)
PathLikeDoc(path, filename, content_type) ==
    [kind |-> "pathlike", path |-> path, filename |-> filename,
     base64_content |-> S_B64, content_type |-> content_type]

InputDocs ==
    {ModelDoc(NAME_A_PDF, APPLICATION_PDF),
     ModelDoc(NAME_B_PNG, TEXT_PLAIN),
     PathDoc(PATH_A_PDF),
     PathDoc(PATH_C_TXT),
     PathLikeDoc(PATH_A_PDF, NAME_A_PDF, APPLICATION_PDF),
     PathLikeDoc(PATH_B_PNG, NAME_B_PNG, IMAGE_PNG),
     PathLikeDoc(PATH_U_A_PDF, NAME_A_PDF, TEXT_PLAIN),
     PathLikeDoc(PATH_D_JPG, NAME_D_JPG_UPPER, IMAGE_JPEG)}

Payloads == UNION {[1..n -> InputDocs] : n \in 0..MaxDocs}

PipelineClients ==
    {Client(Str(S_CURSE_YMD), Str(S_PEREZ), Str(<<>>), Str(S_RUT_PLAIN)),
     Client(None, None, None, None)}

FilesOnDisk ==
    {[opens |-> FALSE, pages |-> <<>>]}
    \cup {[opens |-> TRUE, pages |-> pages] :
             pages \in {<<>>, <<PAGE_TEXT>>, <<PAGE_BLANK>>,
                        <<PAGE_BLANK, PAGE_TEXT>>}}

Raises == [raises |-> TRUE, content |-> <<>>]
Replies(contents) == {Raises} \cup {[raises |-> FALSE, content |-> c] : c \in contents}

OcrReplies == Replies({OCR_TEXT, OCR_BLANK})
ClassifierReplies == Replies({REPLY_CERTIFICADO, OTRO, REPLY_FACTURA})
ExtractorReplies ==
    Replies({JSON_CERT_FENCED, JSON_CERT_NULL_RUN, JSON_LIST, NOT_JSON})

Base64Sources ==
    {[decodes |-> FALSE, opens |-> FALSE, pages |-> 0],
     [decodes |-> TRUE, opens |-> FALSE, pages |-> 0],
     [decodes |-> TRUE, opens |-> TRUE, pages |-> 0],
     [decodes |-> TRUE, opens |-> TRUE, pages |-> 1]}


(***************************************************************************)
(* SpecExtract: extract_credit_data_chain called on its own, on any        *)
(* preprocessed text, label, content type, content and model reply.        *)
(***************************************************************************)
S_FACTURA == <<"F", "A", "C", "T", "U", "R", "A">>
ExtractorRawTexts == {None, Str(<<>>), Str(OCR_BLANK), Str(PAGE_TEXT)}
ExtractorDocTypes == prompted_types \cup {OTRO, S_FACTURA}
ExtractorContentTypes == {APPLICATION_PDF, IMAGE_JPEG, IMAGE_PNG, TEXT_PLAIN}
ExtractorSources ==
    Base64Sources \cup {[decodes |-> TRUE, opens |-> TRUE, pages |-> 2]}

InitExtract ==
    /\ client_data = EmptyDict /\ today = NoDate
    /\ PipelineIdle /\ ValidatorIdle /\ AggregatorIdle
    /\ ext_args \in [raw_text : ExtractorRawTexts,
                     doc_type : ExtractorDocTypes,
                     content_type : ExtractorContentTypes,
                     source : ExtractorSources,
                     reply : ExtractorReplies]
    /\ ext_result = None

\* lines 27-284: one call, from its arguments to the map it returns
ExtractCreditData ==
    /\ ext_result = None
    /\ ext_result' = extract_credit_data_chain(ext_args.raw_text,
                                               ext_args.doc_type,
                                               ext_args.content_type,
                                               ext_args.source,
                                               ext_args.reply)
    /\ UNCHANGED <<client_data, today, pipeVars, valVars, aggVars, ext_args>>

NextExtract == ExtractCreditData

SpecExtract == InitExtract /\ [][NextExtract]_vars

(***************************************************************************)
(* Spec: one call of main_validation_chain_processor.                      *)
(***************************************************************************)
Init ==
    /\ payload \in Payloads
    /\ client_data \in PipelineClients
    /\ today \in Todays
    /\ pc = "preprocess" /\ pre_i = 1 /\ processed_results = <<>>
    /\ loop_i = 0 /\ cur = None /\ final_document_results = <<>>
    /\ exception = None /\ response = None /\ calls = <<>>
    /\ ValidatorIdle /\ AggregatorIdle /\ ExtractorIdle

Call(stage, doc_id) == [stage |-> stage, doc |-> doc_id]
\* the preprocessing of one document, with what it read and got: whether the
\* file opened, the pages it went through, the number of model calls, the
\* model's reply when there was a call, and the status it ended with
PreprocessorCall(doc_id, file, ocr, done) ==
    LET ext == lower(splitext_ext(doc_id))
        read == ext \in {EXT_PDF, EXT_JPG, EXT_JPEG, EXT_PNG}
    IN  [stage |-> "preprocess", doc |-> doc_id,
         opened |-> read /\ file.opens,
         pages |-> IF ext = EXT_PDF /\ file.opens THEN file.pages ELSE <<>>,
         model_calls |-> done.model_calls,
         reply |-> IF done.model_calls > 0 THEN ocr ELSE None,
         status |-> done.result.status]
\* the call of the classifier, with the reply the model gave to it
ClassifierCall(doc_id, reply) ==
    [stage |-> "classify", doc |-> doc_id, reply |-> reply]

\* what the run leaves alone
Frame == UNCHANGED <<payload, client_data, today, valVars, aggVars, extVars, response>>

\* an exception leaves the try block of lines 118-213
Throw(e) ==
    /\ exception' = e
    /\ pc' = "except"

\* os.fspath, which os.path.basename and os.path.splitext apply to their
\* argument: a TypeError unless it is a str or an os.PathLike object
fspath(doc) ==
    IF doc.kind = "model" THEN [raised |-> TRUE]
    ELSE [raised |-> FALSE, path |-> doc.path]

\* preprocessing.py lines 55-250: one iteration of the loop over the documents
PreprocessDocument ==
    /\ pc = "preprocess" /\ pre_i <= Len(payload)
    /\ LET doc_path == payload[pre_i]
       IN  IF fspath(doc_path).raised
           THEN /\ Throw(Msg("TypeError: expected str, bytes or os.PathLike object"))
                /\ UNCHANGED <<pre_i, processed_results, calls>>
           ELSE \E file \in FilesOnDisk, ocr \in OcrReplies :
                \E done \in {preprocess_document(doc_path, fspath(doc_path).path,
                                                  file, ocr)} :
                  /\ processed_results' =
                         Store(processed_results,
                               basename(fspath(doc_path).path), done.result)
                  /\ pre_i' = pre_i + 1
                  /\ calls' = Append(calls,
                                     PreprocessorCall(
                                         basename(fspath(doc_path).path),
                                         file, ocr, done))
                  /\ UNCHANGED <<pc, exception>>
    /\ UNCHANGED <<loop_i, cur, final_document_results>>
    /\ Frame

\* preprocessing.py line 253 and orchestrator lines 122-126
PreprocessReturn ==
    /\ pc = "preprocess" /\ pre_i > Len(payload)
    /\ pc' = "loop"
    /\ loop_i' = 1
    /\ UNCHANGED <<pre_i, processed_results, cur, final_document_results,
                   exception, calls>>
    /\ Frame

\* lines 130-135, 145-150, 177-182: the record of a document a stage stopped
StageError(doc_info, stage, text, error_key) ==
    Update(doc_info,
           [validation_status |-> "ERROR",
            validation_errors |->
                <<[field |-> stage,
                   message |-> MsgOf(text, GetOr(doc_info, error_key,
                                                 Msg("Error desconocido")))]>>])

\* final_document_results[doc_id] = doc_info, and on to the next document
Record(doc_id, doc_info) ==
    /\ final_document_results' = Store(final_document_results, doc_id, doc_info)
    /\ loop_i' = loop_i + 1
    /\ cur' = None
    /\ pc' = "loop"

\* CheckPreprocessing without the continue of line 137
CheckPreprocessing_without_continue ==
    /\ pc = "loop" /\ loop_i <= Len(processed_results)
    /\ LET doc_id == processed_results[loop_i][1]
           doc_info == processed_results[loop_i][2]
       IN  IF doc_info.status \notin {"processed_llm_ocr", "processed_digital_pdf"}
           THEN /\ final_document_results' =
                       Store(final_document_results, doc_id,
                             StageError(doc_info, "preprocessing",
                                        "Error en preprocesamiento",
                                        "error_message"))
                /\ cur' = [doc_id |-> doc_id,
                           doc_info |-> StageError(doc_info, "preprocessing",
                                                   "Error en preprocesamiento",
                                                   "error_message")]
                /\ pc' = "classify"
                /\ UNCHANGED loop_i
           ELSE /\ cur' = [doc_id |-> doc_id, doc_info |-> doc_info]
                /\ pc' = "classify"
                /\ UNCHANGED <<loop_i, final_document_results>>
    /\ UNCHANGED <<pre_i, processed_results, exception, calls>>
    /\ Frame

\* lines 126-137: the next document, and the test of its preprocessing status
CheckPreprocessing ==
    /\ pc = "loop" /\ loop_i <= Len(processed_results)
    /\ LET doc_id == processed_results[loop_i][1]
           doc_info == processed_results[loop_i][2]
       IN  IF doc_info.status \notin {"processed_llm_ocr", "processed_digital_pdf"}
           THEN Record(doc_id, StageError(doc_info, "preprocessing",
                                          "Error en preprocesamiento",
                                          "error_message"))
           ELSE /\ cur' = [doc_id |-> doc_id, doc_info |-> doc_info]
                /\ pc' = "classify"
                /\ UNCHANGED <<loop_i, final_document_results>>
    /\ UNCHANGED <<pre_i, processed_results, exception, calls>>
    /\ Frame

\* lines 141-154
Classify ==
    /\ pc = "classify"
    /\ \E reply \in ClassifierReplies :
       \E classification_result \in
              {classify_document_chain(cur.doc_info.raw_text, reply)} :
         /\ IF classification_result.raised
            THEN /\ Throw(Msg("TypeError: object of type 'NoneType' has no len()"))
                 /\ UNCHANGED <<loop_i, cur, final_document_results>>
            ELSE \E doc_info \in
                       {Update(cur.doc_info,
                               [doc_type |-> classification_result.doc_type,
                                classification_status |->
                                    classification_result.classification_status,
                                classification_error |->
                                    classification_result.classification_error])} :
                   IF doc_info.classification_status # "classified"
                   THEN /\ Record(cur.doc_id,
                                  StageError(doc_info, "classification",
                                             "Error en clasificacion",
                                             "classification_error"))
                        /\ UNCHANGED exception
                   ELSE /\ cur' = [doc_id |-> cur.doc_id, doc_info |-> doc_info]
                        /\ pc' = "extract"
                        /\ UNCHANGED <<loop_i, final_document_results, exception>>
         /\ calls' = Append(calls, ClassifierCall(cur.doc_id, reply))
    /\ UNCHANGED <<pre_i, processed_results>>
    /\ Frame

\* line 159: next((d for d in documents_base64_payload
\*                 if d.filename == doc_id), None)
RECURSIVE FindOriginal(_, _)
FindOriginal(documents, doc_id) ==
    IF documents = <<>> THEN [raised |-> FALSE, found |-> FALSE]
    ELSE IF "filename" \notin DOMAIN documents[1]
    THEN [raised |-> TRUE, found |-> FALSE]
    ELSE IF documents[1].filename = doc_id
    THEN [raised |-> FALSE, found |-> TRUE, doc |-> documents[1]]
    ELSE FindOriginal(Tail(documents), doc_id)

\* lines 176-186: the test of the extraction status
AfterExtraction(doc_info) ==
    IF doc_info.extraction_status \notin {"extracted", "extracted_raw_text"}
    THEN Record(cur.doc_id, StageError(doc_info, "extraction",
                                       "Error en extraccion", "extraction_error"))
    ELSE /\ cur' = [doc_id |-> cur.doc_id, doc_info |-> doc_info]
         /\ pc' = "validate"
         /\ UNCHANGED <<loop_i, final_document_results>>

\* lines 159-186
Extract ==
    /\ pc = "extract"
    /\ LET original_doc_b64 == FindOriginal(payload, cur.doc_id)
       IN  IF original_doc_b64.raised
           THEN /\ Throw(Msg("AttributeError: 'str' object has no attribute 'filename'"))
                /\ UNCHANGED <<loop_i, cur, final_document_results, calls>>
           ELSE IF original_doc_b64.found
           THEN \E source \in Base64Sources, reply \in ExtractorReplies :
                \E extraction_result \in
                       {extract_credit_data_chain(
                            cur.doc_info.raw_text, cur.doc_info.doc_type,
                            original_doc_b64.doc.content_type, source, reply)} :
                  /\ AfterExtraction(
                         Update(cur.doc_info,
                                [extracted_data |->
                                     extraction_result.extracted_data,
                                 extraction_status |->
                                     extraction_result.extraction_status,
                                 extraction_error |->
                                     extraction_result.extraction_error]))
                  /\ calls' = Append(calls, Call("extract", cur.doc_id))
                  /\ UNCHANGED exception
           ELSE /\ AfterExtraction(
                       Update(cur.doc_info,
                              [extraction_status |-> "failed",
                               extraction_error |->
                                   Msg("Documento Base64 original no encontrado en el payload.")]))
                /\ UNCHANGED <<exception, calls>>
    /\ UNCHANGED <<pre_i, processed_results>>
    /\ Frame

\* lines 190-199
Validate ==
    /\ pc = "validate"
    /\ \E validation_result \in
            {validate_document_data_chain(cur.doc_info.doc_type,
                                          cur.doc_info.extracted_data,
                                          client_data, today)} :
         IF validation_result.raised
         THEN /\ Throw(Msg("AttributeError or TypeError in validate_document_data_chain"))
              /\ UNCHANGED <<loop_i, cur, final_document_results>>
         ELSE /\ Record(cur.doc_id,
                        Update(cur.doc_info,
                               [validation_status |->
                                    validation_result.validation_status,
                                validation_errors |->
                                    validation_result.validation_errors]))
              /\ UNCHANGED exception
    /\ calls' = Append(calls, Call("validate", cur.doc_id))
    /\ UNCHANGED <<pre_i, processed_results>>
    /\ Frame

\* lines 203-213: the response of a run that met no exception
Aggregate ==
    /\ pc = "loop" /\ loop_i > Len(processed_results)
    /\ \E global_status \in {determine_global_status(final_document_results)} :
           response' =
               [validation_status |-> global_status,
                document_results |-> final_document_results,
                global_summary |->
                    generate_global_summary(final_document_results, global_status)]
    /\ pc' = "returned"
    /\ UNCHANGED <<payload, client_data, today, valVars, aggVars, extVars, pre_i,
                   processed_results, loop_i, cur, final_document_results,
                   exception, calls>>

\* the response of a run after an exception without its partial results
critical_error_response_without_results(results, e) ==
    [validation_status |-> "FAILED_CRITICAL_ERROR",
     error_message |-> e,
     document_results |-> <<>>,
     global_summary |->
         [overall_status |-> "FAILED_CRITICAL_ERROR",
          status_message |-> MsgOf("Error critico en el procesamiento", e),
          document_status_summary |-> EmptyDict,
          total_documents |-> 0,
          total_errors |-> 1,
          documents_with_errors |-> 0,
          error_details |-> None]]

\* lines 217-230
critical_error_response(results, e) ==
    [validation_status |-> "FAILED_CRITICAL_ERROR",
     error_message |-> e,
     document_results |-> results,
     global_summary |->
         [overall_status |-> "FAILED_CRITICAL_ERROR",
          status_message |-> MsgOf("Error critico en el procesamiento", e),
          document_status_summary |-> EmptyDict,
          total_documents |-> Len(results),
          total_errors |-> 1,
          documents_with_errors |-> 0,
          error_details |-> None]]

\* lines 215-230: except Exception as e
HandleException ==
    /\ pc = "except"
    /\ response' = critical_error_response(final_document_results, exception)
    /\ pc' = "returned"
    /\ UNCHANGED <<payload, client_data, today, valVars, aggVars, extVars, pre_i,
                   processed_results, loop_i, cur, final_document_results,
                   exception, calls>>

Next ==
    \/ PreprocessDocument
    \/ PreprocessReturn
    \/ CheckPreprocessing
    \/ Classify
    \/ Extract
    \/ Validate
    \/ Aggregate
    \/ HandleException

Spec == Init /\ [][Next]_vars


(***************************************************************************)
(* The claims about main_validation_chain_processor.                       *)
(***************************************************************************)
Returned == pc = "returned"

\* the key the pipeline files a document under, and the filename it declares
DocId(doc) == IF doc.kind = "model" THEN doc.filename ELSE basename(doc.path)
Filename(doc) == IF "filename" \in DOMAIN doc THEN doc.filename ELSE basename(doc.path)

\* the stages after preprocessing invoked for a document, in order
StagesOf(doc_id) ==
    LET mine == SelectSeq(calls, LAMBDA c : c.doc = doc_id /\ c.stage # "preprocess")
    IN  [i \in 1..Len(mine) |-> mine[i].stage]

PreprocessedOk(rec) == rec.status \in {"processed_llm_ocr", "processed_digital_pdf"}
ClassifiedOk(rec) == rec.classification_status = "classified"
ExtractedOk(rec) == rec.extraction_status \in {"extracted", "extracted_raw_text"}

\* terminal status ERROR with one finding, which names the stage
StoppedAt(rec, stage) ==
    /\ rec.validation_status = "ERROR"
    /\ Len(rec.validation_errors) = 1
    /\ rec.validation_errors[1].field = stage

\* the documents the loop is done with are the recorded ones, in order
DoneAreRecorded ==
    KeyList(final_document_results) =
        [i \in 1..(IF loop_i > 0 THEN loop_i - 1 ELSE 0) |-> processed_results[i][1]]

\* C2: in every response, a record with no CRITICAL and no MANUAL_REVIEW
\* finding has status OK, and a record with a CRITICAL finding has status
\* ERROR, the documents a stage stopped included.
C2_RecordStatusFollowsFindings ==
    Returned =>
        \A i \in 1..Len(response.document_results) :
            LET rec == response.document_results[i][2]
            IN  /\ (/\ ~HasSeverity(rec.validation_errors, "CRITICAL")
                    /\ ~HasSeverity(rec.validation_errors, "MANUAL_REVIEW"))
                       => rec.validation_status = "OK"
                /\ HasSeverity(rec.validation_errors, "CRITICAL")
                       => rec.validation_status = "ERROR"

\* C4: the empty result map gives RECHAZADA_REVISION_AUTOMATICA, from
\* determine_global_status and from a run on an empty document list.
C4_EmptyRequestRejected ==
    /\ determine_global_status(<<>>) = "RECHAZADA_REVISION_AUTOMATICA"
    /\ (Returned /\ payload = <<>>) =>
           /\ response.validation_status = "RECHAZADA_REVISION_AUTOMATICA"
           /\ response.global_summary.overall_status = "RECHAZADA_REVISION_AUTOMATICA"

\* a run on the empty list has returned, with no record
C4_Witness ==
    /\ Returned /\ payload = <<>> /\ calls = <<>>
    /\ response.document_results = <<>>
    /\ response.global_summary.total_documents = 0

\* C6: when the run is over, document_results holds one record per distinct
\* filename of the request, keyed by that filename.
C6_OneRecordPerFilename ==
    Returned =>
        Keys(response.document_results) =
            {Filename(payload[i]) : i \in 1..Len(payload)}

SupportedContentTypes == {APPLICATION_PDF, IMAGE_JPEG, IMAGE_PNG}

\* C7: a document that declares a content type other than application/pdf,
\* image/jpeg and image/png ends preprocessing with status unsupported_format
\* and no text, and no later stage is invoked for it.
C7_UnsupportedContentTypeStopsAtPreprocessing ==
    Returned =>
        \A i \in 1..Len(payload) :
            ("content_type" \in DOMAIN payload[i]
             /\ payload[i].content_type \notin SupportedContentTypes) =>
                /\ DocId(payload[i]) \in Keys(processed_results)
                /\ Lookup(processed_results, DocId(payload[i])).status
                       = "unsupported_format"
                /\ Lookup(processed_results, DocId(payload[i])).raw_text = None
                /\ StagesOf(DocId(payload[i])) = <<>>

\* C8: in a request of two or more documents every document ends with a
\* validation status of its own in document_results, whatever happened to
\* the others.
C8_EveryDocumentReachesItsStatus ==
    (Returned /\ Len(payload) >= 2) =>
        \A i \in 1..Len(payload) :
            /\ DocId(payload[i]) \in Keys(response.document_results)
            /\ "validation_status" \in
                   DOMAIN Lookup(response.document_results, DocId(payload[i]))

\* the state part of C9
C9_FailureResponse ==
    /\ exception # None => pc \in {"except", "returned"}
    /\ pc # "returned" => response = None
    /\ pc = "except" => exception # None /\ ENABLED HandleException
    /\ Returned => response # None
    /\ pc \in {"loop", "classify", "extract", "validate", "except"} => DoneAreRecorded
    /\ (Returned /\ exception # None) =>
           /\ response.validation_status = "FAILED_CRITICAL_ERROR"
           /\ response.document_results = final_document_results
           /\ response.global_summary.total_documents = Len(final_document_results)
           /\ DoneAreRecorded
           /\ \A i \in 1..Len(final_document_results) :
                  "validation_status" \in DOMAIN final_document_results[i][2]

\* the step part of C9
C9_RecordsKept ==
    /\ Len(final_document_results') >= Len(final_document_results)
    /\ SubSeq(final_document_results', 1, Len(final_document_results))
           = final_document_results
    /\ exception # None =>
           /\ final_document_results' = final_document_results
           /\ calls' = calls

\* C9: an exception that leaves the loop ends the processing and is caught,
\* and the run returns FAILED_CRITICAL_ERROR with the records written before
\* it, each as it was written.
C9_ExceptionGivesPartialResults ==
    /\ []C9_FailureResponse
    /\ [][C9_RecordsKept]_vars

\* a run that recorded a document and then met an exception
C9_Witness ==
    /\ Returned /\ exception # None
    /\ Len(response.document_results) >= 1
    /\ response.validation_status = "FAILED_CRITICAL_ERROR"

\* C10: the stages of a document run at most once and in order, and a
\* document whose stage fails gets status ERROR with the one finding naming
\* that stage, is recorded, and sees no later stage.
C10_StagesOnceInOrder ==
    /\ Len(SelectSeq(calls, LAMBDA c : c.stage = "preprocess")) = pre_i - 1
    /\ pre_i - 1 <= Len(payload)
    /\ \A i, j \in 1..Len(calls) :
           (i < j /\ calls[j].stage = "preprocess") => calls[i].stage = "preprocess"
    /\ \A i \in 1..Len(processed_results) :
           StagesOf(processed_results[i][1]) \in
               {<<>>, <<"classify">>, <<"classify", "extract">>,
                <<"classify", "extract", "validate">>}
    /\ pc \in {"loop", "classify", "extract", "validate"} => DoneAreRecorded
    /\ \A i \in 1..Len(final_document_results) :
           LET doc_id == final_document_results[i][1]
               rec == final_document_results[i][2]
           IN  IF ~PreprocessedOk(rec)
               THEN StoppedAt(rec, "preprocessing") /\ StagesOf(doc_id) = <<>>
               ELSE IF ~ClassifiedOk(rec)
               THEN StoppedAt(rec, "classification")
                    /\ StagesOf(doc_id) = <<"classify">>
               ELSE IF ~ExtractedOk(rec)
               THEN StoppedAt(rec, "extraction")
                    /\ StagesOf(doc_id) \in {<<"classify">>, <<"classify", "extract">>}
               ELSE StagesOf(doc_id) = <<"classify", "extract", "validate">>

\* a run over, one document stopped at preprocessing and one at extraction
C10_Witness ==
    /\ Returned /\ Len(final_document_results) = 2
    /\ StoppedAt(final_document_results[1][2], "preprocessing")
    /\ StoppedAt(final_document_results[2][2], "extraction")
    /\ StagesOf(final_document_results[2][1]) = <<"classify", "extract">>


(***************************************************************************)
(* The claims about the rules of validate_document_data_chain, read off    *)
(* the runs of SpecValidate that are over.                                 *)
(***************************************************************************)
Finished == v_pc \in {"returned", "raised"}

\* client_data is what the endpoint passes, ClientData.model_dump(): every
\* field a str or None
IsClientData ==
    \A k \in DOMAIN client_data : IsStr(client_data[k]) \/ IsNone(client_data[k])

\* the curse date of the request, when it parses
CurseParsed == CurseDate(client_data).date

ExtractedIsFieldMap == v_extracted.tag = "dict"
ExtractedField(k) == Get(DictOf(v_extracted), k)
\* a field of the extraction read as YYYY-MM-DD
ParsedField(k) == FieldDate(DictOf(v_extracted), k)
FieldParses(k) == ParsedField(k).kind = "date"
\* days from the field's date to the curse date
DaysBeforeCurse(k) == Ordinal(CurseParsed) - Ordinal(ParsedField(k).date)

HasFinding(field, severity) ==
    \E i \in 1..Len(validation_errors) :
        /\ validation_errors[i].field = field
        /\ validation_errors[i].severity = severity
FindingOn(field) ==
    \E i \in 1..Len(validation_errors) : validation_errors[i].field = field
ReturnsErrorWith(field) ==
    /\ v_pc = "returned"
    /\ HasFinding(field, "CRITICAL")
    /\ validation_status = "ERROR"

\* C11: a CEDULA_IDENTIDAD whose fecha_vencimiento parses to a date before
\* the parsed curse date ends with a CRITICAL finding on fecha_vencimiento
\* and status ERROR; one that expires on or after the curse date ends with no
\* finding on fecha_vencimiento.
C11_ExpiredCedulaIsError ==
    (/\ Finished /\ v_doc_type = CEDULA_IDENTIDAD
     /\ ExtractedIsFieldMap /\ IsClientData
     /\ CurseParsed.ok /\ FieldParses("fecha_vencimiento")) =>
        IF DaysBeforeCurse("fecha_vencimiento") > 0
        THEN ReturnsErrorWith("fecha_vencimiento")
        ELSE ~FindingOn("fecha_vencimiento")

\* C12: a REFERENCIAS_PERSONALES extraction that is a list of fewer than two
\* entries ends with a CRITICAL finding on count and status ERROR; one that
\* is no list ends with a CRITICAL finding on extracted_data and status ERROR.
C12_FewReferencesIsError ==
    (Finished /\ v_doc_type = REFERENCIAS_PERSONALES /\ IsClientData) =>
        /\ (v_extracted.tag = "list" /\ Len(v_extracted.v) < 2) =>
               ReturnsErrorWith("count")
        /\ v_extracted.tag # "list" => ReturnsErrorWith("extracted_data")


\* a national ID without its dots and hyphen, in lower case
NormalisedId(x) ==
    IF IsStr(x)
    THEN lower(SelectSeq(strip(x.v), LAMBDA c : c \notin {".", "-"}))
    ELSE <<>>

\* a CERTIFICADO_DEUDA with its four required fields, estado_deuda
\* SIN ANOTACIONES and fecha_emision on the curse date
CleanCertificate ==
    /\ v_doc_type = CERTIFICADO_DEUDA /\ ExtractedIsFieldMap /\ IsClientData
    /\ \A k \in {"nombre_titular", "run_titular", "estado_deuda", "fecha_emision"} :
           Truthy(ExtractedField(k))
    /\ ExtractedField("estado_deuda") = Str(S_SIN)
    /\ CurseParsed.ok /\ FieldParses("fecha_emision")
    /\ DaysBeforeCurse("fecha_emision") = 0

\* C13 as stated: every such certificate is returned with no finding and
\* status OK.
C13_CleanCertificateIsOk ==
    (v_pc = "returned" /\ CleanCertificate) =>
        validation_errors = <<>> /\ validation_status = "OK"

\* the holder's national ID is that of the client
HolderIsClient ==
    /\ NormalisedId(ExtractedField("run_titular")) # <<>>
    /\ NormalisedId(ExtractedField("run_titular"))
           = NormalisedId(client_data.cliente_rut)

\* C13, amended: such a certificate whose run_titular is the client's
\* national ID, dots, hyphen and case apart, is returned with no finding and
\* status OK.
C13_CleanCertificateOfClientIsOk ==
    (Finished /\ CleanCertificate /\ HolderIsClient) =>
        /\ v_pc = "returned"
        /\ validation_errors = <<>> /\ validation_status = "OK"

\* a certificate written with dots for a client whose ID is written without
C13_Witness ==
    /\ v_pc = "returned" /\ CleanCertificate /\ HolderIsClient
    /\ ExtractedField("run_titular") # client_data.cliente_rut
    /\ validation_status = "OK"


\* the findings of the rules that compare a date of the document with the
\* curse date, or with today in its place
DateRelativeMessages ==
    {"expired_at_curse", "expired_today", "future", "too_old", "expired",
     "not_curse_date", "review_age", "too_old_today", "no_curse_date"}

\* solicitud_fecha_curse is given and parses neither way
CurseUnparseable ==
    /\ IsStr(client_data.solicitud_fecha_curse)
    /\ client_data.solicitud_fecha_curse.v # <<>>
    /\ ~CurseParsed.ok

\* C14: with a curse date that does not parse, a returned run holds a
\* CRITICAL finding on solicitud_fecha_curse, and whatever its date-relative
\* rules found is for MANUAL_REVIEW.
C14_UnparseableCurseDegradesDateRules ==
    (v_pc = "returned" /\ IsClientData /\ CurseUnparseable) =>
        /\ HasFinding("solicitud_fecha_curse", "CRITICAL")
        /\ \A i \in 1..Len(validation_errors) :
               validation_errors[i].message \in DateRelativeMessages =>
                   validation_errors[i].severity = "MANUAL_REVIEW"


HasFindingWith(field, severity, message) ==
    \E i \in 1..Len(validation_errors) :
        /\ validation_errors[i].field = field
        /\ validation_errors[i].severity = severity
        /\ validation_errors[i].message = message

\* The form of a national ID as the specification words it: 1-2 digits, dot,
\* 3 digits, dot, 3 digits, hyphen, check digit, or 7-8 digits, hyphen, check
\* digit, a digit being one of 0-9 and a check digit one of 0-9, K, k.
NationalIdForm(s) ==
    LET n == Len(s)
        digits(a, b) == \A i \in a..b : s[i] \in Digits
        tail == n >= 2 /\ s[n - 1] = "-" /\ s[n] \in Digits \cup {"K", "k"}
    IN  \/ /\ n \in {11, 12} /\ tail
           /\ digits(1, n - 10) /\ s[n - 9] = "."
           /\ digits(n - 8, n - 6) /\ s[n - 5] = "."
           /\ digits(n - 4, n - 2)
        \/ /\ n \in {9, 10} /\ tail
           /\ digits(1, n - 2)

\* the format finding of one national-ID field agrees with the form
FormatCheckExact(k, field) ==
    LET x == ExtractedField(k)
    IN  (IsStr(x) /\ x.v # <<>>) =>
            (HasFindingWith(field, "CRITICAL", "format") <=> ~NationalIdForm(x.v))

\* C15: in every validation that returns, the format check of run
\* (CEDULA_IDENTIDAD) and of run_empleado and rut_empresa (LIQUIDACION_SUELDO)
\* passes exactly the texts of the national-ID form, and adds a CRITICAL
\* finding for every other text.
C15_NationalIdFormatExact ==
    (v_pc = "returned" /\ ExtractedIsFieldMap) =>
        /\ v_doc_type = CEDULA_IDENTIDAD => FormatCheckExact("run", "run_format")
        /\ v_doc_type = LIQUIDACION_SUELDO =>
               /\ FormatCheckExact("run_empleado", "run_empleado")
               /\ FormatCheckExact("rut_empresa", "rut_empresa")


\* every extracted field is a text or null, as the extraction schema has it
ExtractedIsTextMap ==
    /\ ExtractedIsFieldMap
    /\ \A k \in DOMAIN DictOf(v_extracted) :
           IsStr(ExtractedField(k)) \/ IsNone(ExtractedField(k))

\* a name as the cross-check compares it: trimmed and case-folded; a null or
\* missing value is absent, like the empty text
NormalisedName(x) == IF IsStr(x) THEN lower(strip(x.v)) ELSE <<>>

NameCrossCheck(i) ==
    LET e == NormalisedName(ExtractedField(NameFields[i]))
        c == NormalisedName(client_data[ClientNameFields[i]])
    IN  HasFindingWith(NameFields[i], "CRITICAL", "mismatch")
            <=> (e # <<>> /\ c # <<>> /\ e # c)

RunCrossCheck ==
    LET e == NormalisedId(ExtractedField("run"))
        c == NormalisedId(client_data.cliente_rut)
    IN  HasFindingWith("run", "CRITICAL", "mismatch")
            <=> (e # <<>> /\ c # <<>> /\ e # c)

\* C16: the validation of a CEDULA_IDENTIDAD or COMPROBANTE_DOMICILIO field
\* map of texts and nulls completes, with a CRITICAL mismatch finding on an
\* identity field exactly when both sides are present and differ after
\* normalisation, and none when either side is null or empty.
C16_IdentityCrossCheck ==
    (Finished /\ v_doc_type \in {CEDULA_IDENTIDAD, COMPROBANTE_DOMICILIO}
     /\ ExtractedIsTextMap /\ IsClientData) =>
        /\ v_pc = "returned"
        /\ \A i \in 1..3 : NameCrossCheck(i)
        /\ v_doc_type = CEDULA_IDENTIDAD => RunCrossCheck


\* the findings of one date field of a COMPROBANTE_DOMICILIO: CRITICAL exactly
\* when the date is out of range, nothing else when the curse date is known;
\* MANUAL_REVIEW when it is not
DateRuleAgainstCurse(k, outOfRange) ==
    FieldParses(k) =>
        IF CurseParsed.ok
        THEN /\ HasFinding(k, "CRITICAL") <=> outOfRange
             /\ ~outOfRange => ~FindingOn(k)
        ELSE HasFinding(k, "MANUAL_REVIEW")

\* C17: the validation of a COMPROBANTE_DOMICILIO returns with a CRITICAL
\* finding on fecha_emision exactly when it is after the curse date or more
\* than 60 days before it, and on fecha_vencimiento exactly when it is more
\* than 10 days before the curse date; without a usable curse date each
\* parseable date gets a MANUAL_REVIEW finding.
C17_ComprobanteDateWindows ==
    (Finished /\ v_doc_type = COMPROBANTE_DOMICILIO /\ ExtractedIsTextMap
     /\ IsClientData) =>
        /\ v_pc = "returned"
        /\ DateRuleAgainstCurse("fecha_emision",
               CurseParsed.ok /\ (DaysBeforeCurse("fecha_emision") < 0
                                  \/ DaysBeforeCurse("fecha_emision") > 60))
        /\ DateRuleAgainstCurse("fecha_vencimiento",
               CurseParsed.ok /\ DaysBeforeCurse("fecha_vencimiento") > 10)


EstadoDeuda == ExtractedField("estado_deuda")
EstadoContains(words) == IsStr(EstadoDeuda) /\ Contains(lower(EstadoDeuda.v), words)

\* C18: in every CERTIFICADO_DEUDA validation that returns, an estado_deuda
\* text containing "con anotaciones" in any letter case has a CRITICAL finding
\* on estado_deuda, a text containing neither "sin anotaciones" nor
\* "con anotaciones" has a MANUAL_REVIEW finding, and an absent estado_deuda
\* has a CRITICAL finding.
C18_DebtStatusFindings ==
    (v_pc = "returned" /\ v_doc_type = CERTIFICADO_DEUDA /\ ExtractedIsFieldMap) =>
        /\ EstadoContains(CON_ANOTACIONES) => HasFinding("estado_deuda", "CRITICAL")
        /\ (Truthy(EstadoDeuda) /\ IsStr(EstadoDeuda)
            /\ ~EstadoContains(SIN_ANOTACIONES) /\ ~EstadoContains(CON_ANOTACIONES))
               => HasFinding("estado_deuda", "MANUAL_REVIEW")
        /\ ~Truthy(EstadoDeuda) => HasFinding("estado_deuda", "CRITICAL")


RunTitularDiffers ==
    LET e == NormalisedId(ExtractedField("run_titular"))
        c == NormalisedId(client_data.cliente_rut)
    IN  e = <<>> \/ e # c

\* C19: the validation of a CERTIFICADO_DEUDA field map of texts and nulls
\* returns with a CRITICAL finding on fecha_emision exactly when, the curse
\* date being known, the field parses to another date or does not parse; with
\* a MANUAL_REVIEW finding on a parseable fecha_emision when the curse date is
\* missing; and with a CRITICAL finding on run_titular exactly when it is
\* absent or differs from the client's national ID after removing dots and
\* hyphen and case-folding.
C19_CertificateDateAndHolder ==
    (Finished /\ v_doc_type = CERTIFICADO_DEUDA /\ ExtractedIsTextMap
     /\ IsClientData) =>
        /\ v_pc = "returned"
        /\ (CurseParsed.ok /\ Truthy(ExtractedField("fecha_emision"))) =>
               (HasFinding("fecha_emision", "CRITICAL")
                    <=> (~FieldParses("fecha_emision")
                         \/ DaysBeforeCurse("fecha_emision") # 0))
        /\ (IsNone(client_data.solicitud_fecha_curse)
            /\ FieldParses("fecha_emision")) =>
               HasFinding("fecha_emision", "MANUAL_REVIEW")
        /\ HasFinding("run_titular", "CRITICAL") <=> RunTitularDiffers


\* whole calendar months from the month of field k to the month of the curse
\* date
MonthsBeforeCurse(k) ==
    (CurseParsed.y - ParsedField(k).date.y) * 12
        + (CurseParsed.m - ParsedField(k).date.m)

\* C20: in every LIQUIDACION_SUELDO validation that returns with a known curse
\* date, a fecha_emision after the curse date, by any number of days, or more
\* than 3 months before it has a CRITICAL finding, one between 2 and 3 months
\* before it has a MANUAL_REVIEW finding, and one at most 2 months before and
\* not after it has no finding.
C20_PayslipAge ==
    (v_pc = "returned" /\ v_doc_type = LIQUIDACION_SUELDO /\ ExtractedIsFieldMap
     /\ CurseParsed.ok /\ FieldParses("fecha_emision")) =>
        IF \/ DaysBeforeCurse("fecha_emision") < 0
           \/ MonthsBeforeCurse("fecha_emision") > 3
        THEN HasFinding("fecha_emision", "CRITICAL")
        ELSE IF MonthsBeforeCurse("fecha_emision") > 2
        THEN HasFinding("fecha_emision", "MANUAL_REVIEW")
        ELSE ~FindingOn("fecha_emision")


MontoFields == {"sueldo_bruto", "sueldo_liquido", "total_descuentos",
                "total_imposiciones"}

\* a monetary value is numeric when it is a number, or a text that reads as
\* one after removing dots and replacing a comma by a decimal point
NumericMonto(x) ==
    \/ x.tag = "int"
    \/ IsStr(x) /\ FloatParses(ReplaceChar(RemoveChar(x.v, "."), ",", "."))

MontoFindings(k) ==
    LET x == ExtractedField(k)
    IN  /\ HasFinding(k, "CRITICAL") <=> IsNone(x)
        /\ HasFinding(k, "MANUAL_REVIEW") <=> (~IsNone(x) /\ ~NumericMonto(x))

\* C21: in every LIQUIDACION_SUELDO validation that returns, each monetary
\* field has a CRITICAL finding iff it is null or missing, a MANUAL_REVIEW
\* finding iff it is present and not numeric, and no finding when it is
\* present and numeric.
C21_MonetaryFields ==
    (v_pc = "returned" /\ v_doc_type = LIQUIDACION_SUELDO /\ ExtractedIsFieldMap) =>
        \A k \in MontoFields : MontoFindings(k)


\* a field of entry i of the extracted list; an entry that is no field map
\* has none
ReferenceField(i, k) ==
    IF v_extracted.v[i].tag = "dict" THEN Get(v_extracted.v[i].v, k) ELSE None
ReferenceFinding(i, k) ==
    HasFinding("reference_" \o ToString(i) \o "." \o k, "CRITICAL")

\* a Chilean phone number as the specification words it: an optional 56, then
\* 9 and 8 digits, or a digit 2-8 and 7 digits
ChileanPhone(s) ==
    LET t == IF Len(s) \in {10, 11} /\ SubSeq(s, 1, 2) = <<"5", "6">>
             THEN SubSeq(s, 3, Len(s)) ELSE s
    IN  /\ AllDigits(t)
        /\ \/ Len(t) = 9 /\ t[1] = "9"
           \/ Len(t) = 8 /\ t[1] \in {"2", "3", "4", "5", "6", "7", "8"}

ValidPhone(x) ==
    IsStr(x) /\ ChileanPhone(SelectSeq(x.v, LAMBDA c : c \notin {" ", "-", "(", ")", "+"}))

\* C22: the validation of REFERENCIAS_PERSONALES extracted as a list returns
\* with, for each entry, a CRITICAL finding on its name iff the name is absent
\* and a CRITICAL finding on its phone iff the phone is absent or no valid
\* Chilean number; at least 2 entries that all have a name and a valid phone
\* give no findings and status OK when the curse date is valid or absent.
C22_ReferenceEntries ==
    (Finished /\ v_doc_type = REFERENCIAS_PERSONALES /\ v_extracted.tag = "list"
     /\ IsClientData) =>
        /\ v_pc = "returned"
        /\ \A i \in 1..Len(v_extracted.v) :
               /\ ReferenceFinding(i, "nombre_referencia")
                      <=> ~Truthy(ReferenceField(i, "nombre_referencia"))
               /\ ReferenceFinding(i, "numero_telefono")
                      <=> ~ValidPhone(ReferenceField(i, "numero_telefono"))
        /\ (/\ Len(v_extracted.v) >= 2
            /\ \A i \in 1..Len(v_extracted.v) :
                   /\ Truthy(ReferenceField(i, "nombre_referencia"))
                   /\ ValidPhone(ReferenceField(i, "numero_telefono"))
            /\ (CurseParsed.ok \/ IsNone(client_data.solicitud_fecha_curse)))
               => (validation_errors = <<>> /\ validation_status = "OK")


(***************************************************************************)
(* The claims about the catch-all document type.                           *)
(***************************************************************************)
SpecificTypes ==
    {CEDULA_IDENTIDAD, LIQUIDACION_SUELDO, COMPROBANTE_DOMICILIO,
     CERTIFICADO_DEUDA, REFERENCIAS_PERSONALES}

\* the record carries a resolved document type outside the five specific ones
ResolvedAsOther(rec) ==
    "doc_type" \in DOMAIN rec /\ rec.doc_type \notin SpecificTypes

FlaggedForManualReview(rec) ==
    /\ \E j \in 1..Len(rec.validation_errors) :
           /\ rec.validation_errors[j].field = "document_type"
           /\ Severity(rec.validation_errors[j]) = "MANUAL_REVIEW"
    /\ ~HasSeverity(rec.validation_errors, "CRITICAL")
           => rec.validation_status = "PENDIENTE_MANUAL"

\* C23 as stated: every recorded document whose resolved type is OTRO or none
\* of the five specific types carries a MANUAL_REVIEW finding on document_type
\* and, without a CRITICAL finding, has status PENDIENTE_MANUAL.
C23_OtherTypeIsFlagged ==
    \A i \in 1..Len(final_document_results) :
        ResolvedAsOther(final_document_results[i][2])
            => FlaggedForManualReview(final_document_results[i][2])

\* C23, amended: every recorded document that was classified and extracted,
\* and so validated, with a resolved type outside the five specific ones
\* carries a MANUAL_REVIEW finding on document_type and, without a CRITICAL
\* finding, has status PENDIENTE_MANUAL.
C23_ValidatedOtherTypeIsFlagged ==
    \A i \in 1..Len(final_document_results) :
        LET rec == final_document_results[i][2]
        IN  (ResolvedAsOther(rec) /\ ClassifiedOk(rec) /\ ExtractedOk(rec))
                => FlaggedForManualReview(rec)

\* a document classified OTRO was validated and is pending manual review
C23_Witness ==
    \E i \in 1..Len(final_document_results) :
        LET rec == final_document_results[i][2]
        IN  /\ ResolvedAsOther(rec) /\ ClassifiedOk(rec) /\ ExtractedOk(rec)
            /\ StagesOf(final_document_results[i][1])
                   = <<"classify", "extract", "validate">>
            /\ rec.validation_status = "PENDIENTE_MANUAL"


(***************************************************************************)
(* The claims about the stages, read off the calls the pipeline made.      *)
(***************************************************************************)
SixLabels == SpecificTypes \cup {OTRO}

\* what the pipeline holds about a document: its record once it is written,
\* and before that the doc_info the loop is working on
InfoOf(doc_id) ==
    IF doc_id \in Keys(final_document_results)
    THEN Lookup(final_document_results, doc_id)
    ELSE cur.doc_info

ClassifierCalls == SelectSeq(calls, LAMBDA c : c.stage = "classify")

\* the reply of a classifier call, trimmed and upper-cased
NormalisedReply(c) == upper(strip(c.reply.content))
RepliedLabel(c) == ~c.reply.raises /\ NormalisedReply(c) \in SixLabels

\* C25: every call of classify_document_chain returned: classified with the
\* trimmed, upper-cased reply as doc_type iff that reply is one of the six
\* labels, and otherwise failed with doc_type OTRO and an error message; the
\* doc_type is always one of the six labels.
C25_ClassifierResult ==
    /\ exception # Msg("TypeError: object of type 'NoneType' has no len()")
    /\ \A i \in 1..Len(ClassifierCalls) :
           LET c == ClassifierCalls[i]
               info == InfoOf(c.doc)
           IN  /\ c.doc \in Keys(final_document_results)
                      \/ (cur # None /\ cur.doc_id = c.doc)
               /\ {"doc_type", "classification_status", "classification_error"}
                      \subseteq DOMAIN info
               /\ info.doc_type \in SixLabels
               /\ IF RepliedLabel(c)
                  THEN /\ info.classification_status = "classified"
                       /\ info.doc_type = NormalisedReply(c)
                  ELSE /\ info.classification_status = "failed"
                       /\ info.doc_type = OTRO
                       /\ info.classification_error # None

\* two documents went through the classifier: one reply, padded and in lower
\* case, named a label; the other named no label
C25_Witness ==
    /\ Len(ClassifierCalls) = 2
    /\ ClassifierCalls[1].reply = [raises |-> FALSE, content |-> REPLY_CERTIFICADO]
    /\ InfoOf(ClassifierCalls[1].doc).classification_status = "classified"
    /\ InfoOf(ClassifierCalls[1].doc).doc_type = CERTIFICADO_DEUDA
    /\ ClassifierCalls[2].reply = [raises |-> FALSE, content |-> REPLY_FACTURA]
    /\ InfoOf(ClassifierCalls[2].doc).classification_status = "failed"


PreprocessorCalls == SelectSeq(calls, LAMBDA c : c.stage = "preprocess")

\* the call read a PDF that opened
OpenedPdf(c) == lower(splitext_ext(c.doc)) = EXT_PDF /\ c.opened
HasDigitalText(c) == \E i \in 1..Len(c.pages) : strip(c.pages[i]) # <<>>

\* one model call, and the status its reply gives
OneOcrCall(c) ==
    /\ c.model_calls = 1
    /\ ~c.reply.raises =>
           c.status = IF strip(c.reply.content) # <<>>
                      THEN "processed_llm_ocr" ELSE "no_text_found_by_llm"

NamedStatuses ==
    {"processed_digital_pdf", "processed_llm_ocr", "no_text_found_by_llm",
     "unsupported_format", "processing_failed"}

\* C26 as stated: a PDF is processed_digital_pdf iff a page has non-blank
\* digital text, then with no model call; otherwise there is exactly one
\* model call, whose reply gives processed_llm_ocr or no_text_found_by_llm;
\* and every preprocessing status is one of the five named ones.
C26_PdfTextBeforeOcr ==
    \A i \in 1..Len(PreprocessorCalls) :
        LET c == PreprocessorCalls[i]
        IN  /\ c.status \in NamedStatuses
            /\ OpenedPdf(c) =>
                   /\ c.status = "processed_digital_pdf" <=> HasDigitalText(c)
                   /\ IF HasDigitalText(c) THEN c.model_calls = 0
                      ELSE OneOcrCall(c)

\* C26, amended: as above for a PDF with at least one page; a PDF with no
\* page gets status no_content with no model call, and every preprocessing
\* status is one of the five named ones or no_content.
C26_PdfTextBeforeOcrOrNoContent ==
    \A i \in 1..Len(PreprocessorCalls) :
        LET c == PreprocessorCalls[i]
        IN  /\ c.status \in NamedStatuses \cup {"no_content"}
            /\ OpenedPdf(c) =>
                   /\ c.status = "processed_digital_pdf" <=> HasDigitalText(c)
                   /\ IF HasDigitalText(c) THEN c.model_calls = 0
                      ELSE IF c.pages = <<>>
                      THEN c.status = "no_content" /\ c.model_calls = 0
                      ELSE OneOcrCall(c)

\* a PDF with an image-only page and a page of digital text was preprocessed
\* without a model call, and a PDF with no page ended as no_content
C26_Witness ==
    \E i, j \in 1..Len(PreprocessorCalls) :
        /\ OpenedPdf(PreprocessorCalls[i])
        /\ PreprocessorCalls[i].pages = <<PAGE_BLANK, PAGE_TEXT>>
        /\ PreprocessorCalls[i].status = "processed_digital_pdf"
        /\ PreprocessorCalls[i].model_calls = 0
        /\ OpenedPdf(PreprocessorCalls[j])
        /\ PreprocessorCalls[j].pages = <<>>
        /\ PreprocessorCalls[j].status = "no_content"


ExtractorReturned == ext_result # None
SupportedContentType == ext_args.content_type \in {APPLICATION_PDF, IMAGE_JPEG, IMAGE_PNG}
\* the content gave at least one image to send
ImageRendered ==
    /\ SupportedContentType
    /\ ext_args.source.decodes /\ ext_args.source.opens
    /\ ext_args.content_type = APPLICATION_PDF => ext_args.source.pages > 0
HasPrompt == ext_args.doc_type \in SpecificTypes
NonEmptyText(x) == x.tag = "str" /\ x.v # <<>>

\* C27: a call of extract_credit_data_chain makes at most one model call; it
\* makes none and returns "failed" for an unsupported content type or when no
\* image was rendered; for a type without prompt it makes none and returns
\* "extracted_raw_text" with the preprocessed text as field map when that text
\* is non-empty, "failed" otherwise; it always returns a result.
C27_ExtractorModelCalls ==
    ExtractorReturned =>
        /\ ext_result.model_calls \in {0, 1}
        /\ ext_result.extraction_status \in
               {"failed", "failed_json_parse", "extracted", "extracted_raw_text"}
        /\ ~SupportedContentType =>
               ext_result.model_calls = 0 /\ ext_result.extraction_status = "failed"
        /\ (SupportedContentType /\ ~ImageRendered) =>
               ext_result.model_calls = 0 /\ ext_result.extraction_status = "failed"
        /\ (ImageRendered /\ ~HasPrompt) =>
               /\ ext_result.model_calls = 0
               /\ IF NonEmptyText(ext_args.raw_text)
                  THEN /\ ext_result.extraction_status = "extracted_raw_text"
                       /\ ext_result.extracted_data =
                              Dict([text_content |-> ext_args.raw_text])
                  ELSE ext_result.extraction_status = "failed"
        /\ ext_result.model_calls = 1 => ImageRendered /\ HasPrompt

\* a two-page PDF labelled OTRO came back as its preprocessed text, with no
\* model call although the model was ready to answer
C27_Witness ==
    /\ ExtractorReturned
    /\ ext_args.doc_type = OTRO
    /\ ext_args.content_type = APPLICATION_PDF
    /\ ext_args.source = [decodes |-> TRUE, opens |-> TRUE, pages |-> 2]
    /\ ext_args.raw_text = Str(PAGE_TEXT)
    /\ ~ext_args.reply.raises
    /\ ext_result.extraction_status = "extracted_raw_text"
    /\ ext_result.model_calls = 0


AggSummarised == agg_pc = "done"
\* the finding list of the i-th document of the result map; a record without
\* one has no finding
AggFindingsOf(i) == GetOr(agg_docs[i][2], "validation_errors", <<>>)
AggWithFindings == {i \in 1..Len(agg_docs) : Len(AggFindingsOf(i)) > 0}

RECURSIVE SumOfCounts(_, _)
SumOfCounts(counts, statuses) ==
    IF statuses = {} THEN 0
    ELSE LET s == CHOOSE s \in statuses : TRUE
         IN  counts[s] + SumOfCounts(counts, statuses \ {s})

RECURSIVE FindingsUpTo(_)
FindingsUpTo(i) == IF i = 0 THEN 0 ELSE Len(AggFindingsOf(i)) + FindingsUpTo(i - 1)

\* C28: the summary's per-status counts sum to total_documents, the number of
\* documents; total_errors is the sum of the lengths of the documents'
\* finding lists; error_details has exactly one entry for each document with
\* at least one finding, documents_with_errors is their number, and
\* error_details is null when there is none.
C28_SummaryCounts ==
    AggSummarised =>
        /\ agg_summary.total_documents = Len(agg_docs)
        /\ SumOfCounts(agg_summary.document_status_summary,
                       DOMAIN agg_summary.document_status_summary)
               = agg_summary.total_documents
        /\ agg_summary.total_errors = FindingsUpTo(Len(agg_docs))
        /\ agg_summary.documents_with_errors = Cardinality(AggWithFindings)
        /\ IF AggWithFindings = {} THEN agg_summary.error_details = None
           ELSE /\ Len(agg_summary.error_details) = Cardinality(AggWithFindings)
                /\ \A i \in AggWithFindings :
                       \E j \in 1..Len(agg_summary.error_details) :
                           /\ agg_summary.error_details[j].document_id = agg_docs[i][1]
                           /\ agg_summary.error_details[j].errors = AggFindingsOf(i)
                           /\ agg_summary.error_details[j].error_count =
                                  Len(AggFindingsOf(i))

\* a map of three documents was summarised: one with two findings, one with
\* one, one with none
C28_Witness ==
    /\ AggSummarised
    /\ Len(agg_docs) = 3
    /\ Cardinality(AggWithFindings) = 2
    /\ agg_summary.total_errors = 3
    /\ \E i \in 1..3 : "validation_errors" \notin DOMAIN agg_docs[i][2]


StatusRank(s) == CASE s = "OK" -> 0 [] s = "PENDIENTE_MANUAL" -> 1 [] s = "ERROR" -> 2
IsPrefix(s, t) == Len(s) <= Len(t) /\ SubSeq(t, 1, Len(s)) = s

\* C29: in a run of validate_document_data_chain every step leaves the status
\* where it is or moves it up in severity (OK, PENDIENTE_MANUAL, ERROR): ERROR
\* stays ERROR, nothing returns to OK; and the finding list only grows by
\* appending, the findings already there staying in place.
C29_StatusOnlyMovesUp ==
    [][/\ StatusRank(validation_status') >= StatusRank(validation_status)
       /\ validation_status = "ERROR" => validation_status' = "ERROR"
       /\ validation_status' = "OK" => validation_status = "OK"
       /\ IsPrefix(validation_errors, validation_errors')]_vars

\* a returned run that called add_critical_error, then add_manual_review_error,
\* then add_critical_error again, and is ERROR
C29_Witness ==
    /\ v_pc = "returned"
    /\ validation_status = "ERROR"
    /\ \E i, j, k \in 1..Len(validation_errors) :
           /\ i < j /\ j < k
           /\ validation_errors[i].severity = "CRITICAL"
           /\ validation_errors[j].severity = "MANUAL_REVIEW"
           /\ validation_errors[k].severity = "CRITICAL"


Cursado == pc = "returned" /\ response.validation_status = "CURSADO"
StageCalls(stage) == SelectSeq(calls, LAMBDA c : c.stage = stage)

\* the record went through the four stages and carries no finding
CompletedClean(rec) ==
    /\ GetOr(rec, "status", "absent") \in {"processed_llm_ocr", "processed_digital_pdf"}
    /\ GetOr(rec, "classification_status", "absent") = "classified"
    /\ GetOr(rec, "doc_type", OTRO) \in SpecificTypes
    /\ GetOr(rec, "extraction_status", "absent") = "extracted"
    /\ GetOr(rec, "validation_errors", <<"absent">>) = <<>>

\* under CURSADO the request had a document, and every record of
\* document_results completed the four stages without a finding
CursadoRecordsComplete ==
    Cursado =>
        /\ Len(payload) >= 1
        /\ Len(response.document_results) >= 1
        /\ \A i \in 1..Len(response.document_results) :
               CompletedClean(response.document_results[i][2])

\* under CURSADO no document of the request stopped at a stage or was
\* classified OTRO: each was preprocessed to text, got one of the five
\* specific labels from the classifier, and reached the validator
CursadoRequestComplete ==
    Cursado =>
        /\ \A i \in 1..Len(PreprocessorCalls) :
               PreprocessorCalls[i].status \in
                   {"processed_llm_ocr", "processed_digital_pdf"}
        /\ \A i \in 1..Len(ClassifierCalls) :
               /\ ~ClassifierCalls[i].reply.raises
               /\ NormalisedReply(ClassifierCalls[i]) \in SpecificTypes
        /\ Len(PreprocessorCalls) = Len(payload)
        /\ Len(StageCalls("validate")) = Len(payload)

\* the name of a request element: its filename, or the path when the element
\* is a bare path
NameOfElement(d) == GetOr(d, "filename", d.path)
DistinctNames ==
    \A i, j \in 1..Len(payload) :
        i # j => NameOfElement(payload[i]) # NameOfElement(payload[j])

====
